---- MODULE Spec2Model ----
(***************************************************************************)
(* Week-signature stability classifier of dzfranklin/munro-access.         *)
(*                                                                         *)
(* The module models the two analysis programs that carry the classifier:  *)
(*   analyze_rail_rigorous_stability.py   (five-category policy)           *)
(*   analyze_rail_excluding_bank_holidays.py (four-bucket policy)          *)
(* A run is: main calls the analysis function; the function checks the     *)
(* calendar, expands every trip row into ISO weeks, clusters every route's *)
(* weeks by signature, classifies the route, prints the totals and         *)
(* returns; main then computes the publication summary.                    *)
(*                                                                         *)
(* Dates are proleptic Gregorian ordinals, as in Python's datetime         *)
(* (ordinal 1 is 0001-01-01, a Monday).  A week key "2025-W07" is the pair *)
(* <<2025, 7>>.  Percentages are kept as exact fractions: for totals below *)
(* 400 the float comparisons of the source agree with the exact ones.      *)
(***************************************************************************)
EXTENDS Integers, Sequences, FiniteSets, TLC

----------------------------------------------------------------------------
(* Calendar arithmetic of Python's datetime module, which the source uses  *)
(* through datetime(y, m, d), isocalendar(), weekday() and timedelta.      *)

IsLeap(y) == (y % 4 = 0) /\ ((y % 100 # 0) \/ (y % 400 = 0))

DaysInMonth(y, m) ==
    IF m = 2 THEN (IF IsLeap(y) THEN 29 ELSE 28)
    ELSE IF m \in {4, 6, 9, 11} THEN 30 ELSE 31

DaysBeforeYear(y) ==
    (y - 1) * 365 + ((y - 1) \div 4) - ((y - 1) \div 100) + ((y - 1) \div 400)

RECURSIVE DaysBeforeMonth(_, _)
DaysBeforeMonth(y, m) ==
    IF m <= 1 THEN 0 ELSE DaysBeforeMonth(y, m - 1) + DaysInMonth(y, m - 1)

\* datetime(y, m, d) accepts exactly the real calendar dates.
ValidYMD(y, m, d) ==
    /\ y >= 1 /\ y <= 9999
    /\ m >= 1 /\ m <= 12
    /\ d >= 1 /\ d <= DaysInMonth(y, m)

Ymd2Ord(y, m, d) == DaysBeforeYear(y) + DaysBeforeMonth(y, m) + d

\* The calendar year of ordinal n; 146097 days make 400 years, so the
\* estimate is off by at most one.
YearOfOrdinal(n) ==
    LET est == ((n * 400) \div 146097) + 1
    IN  CHOOSE y \in (est - 1)..(est + 1) :
            DaysBeforeYear(y) < n /\ n <= DaysBeforeYear(y + 1)

MonthOfOrdinal(n) ==
    LET y == YearOfOrdinal(n)
        k == n - DaysBeforeYear(y)
    IN  CHOOSE m \in 1..12 :
            DaysBeforeMonth(y, m) < k /\ k <= DaysBeforeMonth(y, m) + DaysInMonth(y, m)

DayOfOrdinal(n) ==
    LET y == YearOfOrdinal(n)
    IN  n - DaysBeforeYear(y) - DaysBeforeMonth(y, MonthOfOrdinal(n))

\* date.weekday(): Monday is 0, Sunday is 6.
Weekday(n) == (n + 6) % 7

\* The Monday that starts ISO week 1 of year y (the week holding 4 January).
IsoWeek1Monday(y) ==
    LET firstday == Ymd2Ord(y, 1, 1)
        firstweekday == (firstday + 6) % 7
        week1monday == firstday - firstweekday
    IN  IF firstweekday > 3 THEN week1monday + 7 ELSE week1monday

\* date.isocalendar()[0:2] as <<ISO year, ISO week>>.
IsoCalendar(n) ==
    LET year == YearOfOrdinal(n)
        week == (n - IsoWeek1Monday(year)) \div 7
    IN  IF n < IsoWeek1Monday(year)
        THEN <<year - 1, ((n - IsoWeek1Monday(year - 1)) \div 7) + 1>>
        ELSE IF week >= 52 /\ n >= IsoWeek1Monday(year + 1)
             THEN <<year + 1, 1>>
             ELSE <<year, week + 1>>

\* get_week_key(date), and the same f-string written inline in the rigorous
\* analysis: the key "{iso year}-W{iso week:02d}" as a pair.
get_week_key(n) == IsoCalendar(n)

----------------------------------------------------------------------------
(* The feed: the calendar table (one row per service_id), the trip table   *)
(* in row order, and the stop-time row count per trip_id.                  *)

\* A missing value of the merged frame (pd.isna is true of it).
NaN == -1

\* Python dicts keep insertion order: a dict is its keys in insertion order
\* and the value at each key.
EmptyDict == [keys |-> <<>>, at |-> <<>>]

Has(d, k) == k \in DOMAIN d.at

Put(d, k, v) ==
    [keys |-> IF Has(d, k) THEN d.keys ELSE Append(d.keys, k),
     at |-> (k :> v) @@ d.at]

Range(seq) == {seq[i] : i \in DOMAIN seq}

\* trips.merge(calendar, on='service_id', how='left'): every trip row, with
\* its service's calendar columns, or NaN in them when the calendar has no
\* row for the service.
MergeRow(f, t) ==
    IF t.service_id \in DOMAIN f.calendar.rows
    THEN [route_id |-> t.route_id, trip_id |-> t.trip_id,
          service_id |-> t.service_id,
          days |-> f.calendar.rows[t.service_id].days,
          start_date |-> f.calendar.rows[t.service_id].start_date,
          end_date |-> f.calendar.rows[t.service_id].end_date]
    ELSE [route_id |-> t.route_id, trip_id |-> t.trip_id,
          service_id |-> t.service_id,
          days |-> <<NaN, NaN, NaN, NaN, NaN, NaN, NaN>>,
          start_date |-> NaN, end_date |-> NaN]

TripsWithCal(f) == [i \in DOMAIN f.trips |-> MergeRow(f, f.trips[i])]

\* trip_departure_counts.get(trip_id, 1)
DepartureCount(f, trip_id) ==
    IF trip_id \in DOMAIN f.stop_times THEN f.stop_times[trip_id] ELSE 1

\* tuple(int(trip[day]) if pd.notna(trip.get(day)) else 0 for day in weekday_cols)
WeekdayPattern(r) == [i \in 1..7 |-> IF r.days[i] = NaN THEN 0 ELSE r.days[i]]

\* A date value that is text int() rejects (no digits, or digits and other
\* characters).
NonNumeric == -2

\* int(trip['start_date']) raises ValueError.
IntFails(x) == x = NonNumeric

\* The date columns are YYYYMMDD numbers; the source slices the digits.
YearPart(n) == n \div 10000

MonthPart(n) == (n \div 100) % 100

DayPart(n) == n % 100

\* datetime(year, month, day) raises ValueError unless the date exists.
DateParses(n) == ValidYMD(YearPart(n), MonthPart(n), DayPart(n))

ParseDate(n) == Ymd2Ord(YearPart(n), MonthPart(n), DayPart(n))

\* A cursor that steps a whole week from where it stands.
NextCursorSameWeekday(d) == d + 7

\* current_date += timedelta(days=7 - current_date.weekday())
NextCursor(d) == d + (7 - Weekday(d))

----------------------------------------------------------------------------
(* The week records: route_weekly_data[route_id]['weeks'][week_key].       *)

\* The defaultdict factories.  The rigorous analysis starts service_ids as
\* a frozenset, the bank-holiday analysis as a set; "frozen" is that type.
DefaultWeek(v) ==
    [service_ids |-> {}, frozen |-> (v = "rigorous"),
     weekday_pattern |-> <<>>, total_departures |-> 0]

DefaultRoute == [weeks |-> EmptyDict]

WeekOf(data, route_id, week_key, v) ==
    IF Has(data, route_id) /\ Has(data.at[route_id].weeks, week_key)
    THEN data.at[route_id].weeks.at[week_key]
    ELSE DefaultWeek(v)

\* Rigorous analysis, the isinstance test before the add: a value that is
\* not a frozenset is replaced by set(), a frozenset by set(of it).
ThawServiceIds(rec) == IF ~rec.frozen THEN {} ELSE rec.service_ids

\* A recording that keeps the pattern the week record already has.
RecordTripFirstPattern(rec, v, service_id, pattern, departure_count) ==
    [service_ids |->
        (IF v = "rigorous" THEN ThawServiceIds(rec) ELSE rec.service_ids)
            \cup {service_id},
     frozen |-> FALSE,
     weekday_pattern |-> IF rec.weekday_pattern = <<>> THEN pattern
                         ELSE rec.weekday_pattern,
     total_departures |-> rec.total_departures + departure_count]

\* One pass of the while body for week_key: service id added, weekday
\* pattern overwritten, departures summed.
RecordTrip(rec, v, service_id, pattern, departure_count) ==
    [service_ids |->
        (IF v = "rigorous" THEN ThawServiceIds(rec) ELSE rec.service_ids)
            \cup {service_id},
     frozen |-> FALSE,
     weekday_pattern |-> pattern,
     total_departures |-> rec.total_departures + departure_count]

\* route_weekly_data[route_id]: created on first access.
TouchRoute(data, route_id) ==
    IF Has(data, route_id) THEN data ELSE Put(data, route_id, DefaultRoute)

SetWeek(data, route_id, week_key, rec) ==
    LET d == TouchRoute(data, route_id)
    IN  Put(d, route_id, [weeks |-> Put(d.at[route_id].weeks, week_key, rec)])

\* A body that also skips the week before an excluded week.
WhileBodyExcludesWeekBefore(data, v, excluded, r, departure_count, d) ==
    LET week_key == get_week_key(d)
    IN  IF v = "coarse" /\ (week_key \in excluded \/ get_week_key(d + 7) \in excluded)
        THEN data
        ELSE SetWeek(data, r.route_id, week_key,
                     RecordTrip(WeekOf(data, r.route_id, week_key, v), v,
                                r.service_id, WeekdayPattern(r), departure_count))

\* The body of "while current_date <= date_end" for one row at cursor d.
WhileBody(data, v, excluded, r, departure_count, d) ==
    LET week_key == get_week_key(d)
    IN  IF v = "coarse" /\ week_key \in excluded
        THEN data
        ELSE SetWeek(data, r.route_id, week_key,
                     RecordTrip(WeekOf(data, r.route_id, week_key, v), v,
                                r.service_id, WeekdayPattern(r), departure_count))

\* for week_data in data['weeks']: a set becomes a frozenset.
FreezeWeeks(weeks) ==
    [keys |-> weeks.keys,
     at |-> [k \in DOMAIN weeks.at |-> [weeks.at[k] EXCEPT !.frozen = TRUE]]]

FreezeAll(data) ==
    [keys |-> data.keys,
     at |-> [r \in DOMAIN data.at |-> [weeks |-> FreezeWeeks(data.at[r].weeks)]]]

\* The whole expansion of one row from cursor d on.
RECURSIVE ExpandFrom(_, _, _, _, _, _, _)
ExpandFrom(data, v, excluded, r, departure_count, d, date_end) ==
    IF d <= date_end
    THEN ExpandFrom(WhileBody(data, v, excluded, r, departure_count, d),
                    v, excluded, r, departure_count, NextCursor(d), date_end)
    ELSE data

\* One iteration of "for _, trip in trips_with_cal.iterrows()".
ExpandRow(data, v, excluded, f, r) ==
    IF r.start_date = NaN \/ r.end_date = NaN
    THEN data
    ELSE IF IntFails(r.start_date) \/ IntFails(r.end_date)
              \/ ~(DateParses(r.start_date) /\ DateParses(r.end_date))
         THEN TouchRoute(data, r.route_id)
         ELSE ExpandFrom(TouchRoute(data, r.route_id), v, excluded, r,
                         DepartureCount(f, r.trip_id),
                         ParseDate(r.start_date), ParseDate(r.end_date))

\* The row's dates are present and int() rejects one: the loop ends there.
RowRaises(r) ==
    /\ r.start_date # NaN /\ r.end_date # NaN
    /\ IntFails(r.start_date) \/ IntFails(r.end_date)

\* The expansion pass over rows in the given order, up to the row that
\* raises, if one does.
RECURSIVE ExpandRows(_, _, _, _, _)
ExpandRows(data, v, excluded, f, rows) ==
    IF rows = <<>> THEN data
    ELSE IF RowRaises(Head(rows))
         THEN ExpandRow(data, v, excluded, f, Head(rows))
    ELSE ExpandRows(ExpandRow(data, v, excluded, f, Head(rows)),
                    v, excluded, f, Tail(rows))

\* route_weekly_data as the analysis function leaves it before the routes
\* are classified.
ExpansionPass(v, excluded, f, rows) ==
    LET data == ExpandRows(EmptyDict, v, excluded, f, rows)
    IN  IF v = "rigorous" THEN FreezeAll(data) ELSE data

----------------------------------------------------------------------------
(* Signatures and clusters.                                                *)

\* sig = (week_data['weekday_pattern'], frozenset of service ids)
Signature(rec) == <<rec.weekday_pattern, rec.service_ids>>

\* week_signatures: week key -> signature, in the weeks' insertion order.
WeekSignatures(weeks) ==
    [keys |-> weeks.keys,
     at |-> [k \in DOMAIN weeks.at |-> Signature(weeks.at[k])]]

\* A grouping that keeps only the latest week of every signature.
RECURSIVE GroupWeeksLastOnly(_, _, _)
GroupWeeksLastOnly(keys, sigs, acc) ==
    IF keys = <<>> THEN acc
    ELSE LET k == Head(keys)
         IN  GroupWeeksLastOnly(Tail(keys), sigs, Put(acc, sigs.at[k], <<k>>))

\* signature_to_weeks[sig].append(week_key) over week_signatures.items().
RECURSIVE GroupWeeks(_, _, _)
GroupWeeks(keys, sigs, acc) ==
    IF keys = <<>> THEN acc
    ELSE LET k == Head(keys)
             sig == sigs.at[k]
             sofar == IF Has(acc, sig) THEN acc.at[sig] ELSE <<>>
         IN  GroupWeeks(Tail(keys), sigs, Put(acc, sig, Append(sofar, k)))

SignatureToWeeks(sigs) == GroupWeeks(sigs.keys, sigs, EmptyDict)

\* [(sig, weeks_list) for sig, weeks_list in signature_to_weeks.items()]
ClusterItems(groups) ==
    [i \in DOMAIN groups.keys |->
        [sig |-> groups.keys[i], weeks |-> groups.at[groups.keys[i]]]]

\* Insert x behind every cluster at least as large: what a stable sort by
\* len, reverse=True, does to items given in order.
RECURSIVE InsertBySize(_, _)
InsertBySize(sorted, x) ==
    IF sorted = <<>> THEN <<x>>
    ELSE IF Len(Head(sorted).weeks) >= Len(x.weeks)
         THEN <<Head(sorted)>> \o InsertBySize(Tail(sorted), x)
         ELSE <<x>> \o sorted

RECURSIVE SortBySizeDesc(_, _)
SortBySizeDesc(items, acc) ==
    IF items = <<>> THEN acc
    ELSE SortBySizeDesc(Tail(items), InsertBySize(acc, Head(items)))

\* clusters = sorted(..., key=lambda x: len(x[1]), reverse=True)
Clusters(weeks) ==
    SortBySizeDesc(ClusterItems(SignatureToWeeks(WeekSignatures(weeks))), <<>>)

\* int(w.split('-W')[0]) * 100 + int(w.split('-W')[1])
WeekNum(week_key) == week_key[1] * 100 + week_key[2]

RECURSIVE SortedNums(_)
SortedNums(S) ==
    IF S = {} THEN <<>>
    ELSE LET m == CHOOSE x \in S : \A y \in S : x <= y
         IN  <<m>> \o SortedNums(S \ {m})

\* The gap the rigorous is_contiguous appends for a difference: 49 and 50
\* count as 1, every other difference as itself.
AdjustedGap(diff) == IF diff = 49 \/ diff = 50 THEN 1 ELSE diff

RECURSIVE SumGaps(_)
SumGaps(nums) ==
    IF Len(nums) <= 1 THEN 0
    ELSE AdjustedGap(nums[2] - nums[1]) + SumGaps(Tail(nums))

\* A test that lets the gaps average up to 2.5.
IsContiguousLoose(week_list) ==
    IF Len(week_list) <= 1 THEN TRUE
    ELSE LET week_nums == SortedNums({WeekNum(w) : w \in Range(week_list)})
         IN  2 * SumGaps(week_nums) <= 5 * (Len(week_nums) - 1)

\* is_contiguous(week_list) of the rigorous analysis; avg_gap <= 1.5 is
\* 2 * sum(gaps) <= 3 * len(gaps).
is_contiguous(week_list) ==
    IF Len(week_list) <= 1 THEN TRUE
    ELSE LET week_nums == SortedNums({WeekNum(w) : w \in Range(week_list)})
         IN  2 * SumGaps(week_nums) <= 3 * (Len(week_nums) - 1)

\* analyze_single_route_detail: differences 49 to 51 count as 1.
SingleRouteGap(diff) == IF diff >= 49 /\ diff <= 51 THEN 1 ELSE diff

RECURSIVE SingleRouteSumGaps(_)
SingleRouteSumGaps(nums) ==
    IF Len(nums) <= 1 THEN 0
    ELSE SingleRouteGap(nums[2] - nums[1]) + SingleRouteSumGaps(Tail(nums))

\* analyze_single_route_detail: the cluster is not printed as SCATTERED
\* (max_gap == 1, or avg_gap <= 1.5).
SingleRouteContiguous(week_list) ==
    LET week_nums == SortedNums({WeekNum(w) : w \in Range(week_list)})
    IN  2 * SingleRouteSumGaps(week_nums) <= 3 * (Len(week_nums) - 1)

\* A percentage x / y * 100, kept exact.
Pct(x, y) == [num |-> x * 100, den |-> y]

PctGE(p, threshold) == p.num >= threshold * p.den

PctEq100(p) == p.num = 100 * p.den

----------------------------------------------------------------------------
(* The five-category policy (rigorous analysis).                           *)

\* Routes with fewer weeks are not classified: "if len(weeks) < 3".
MinWeeksRigorous == 3

\* "if len(weeks) < 4" of the bank-holiday analysis.
MinWeeksCoarse == 4

RigorousCategories ==
    {"fully_stable", "timetable_changeover", "holiday_exceptions",
     "multiple_stable_periods", "chaotic"}

CoarseCategories ==
    {"fully_stable", "mostly_stable", "some_variation", "high_variation"}

\* cluster_contiguity = [is_contiguous(weeks_list) for ... in clusters[:3]]
ClusterContiguity(clusters) ==
    [i \in 1..(IF Len(clusters) < 3 THEN Len(clusters) ELSE 3) |->
        is_contiguous(clusters[i].weeks)]

\* The analysis record of one route.
RigorousRecord(route_id, weeks) ==
    LET clusters == Clusters(weeks)
        total_weeks == Len(weeks.keys)
        largest == Len(clusters[1].weeks)
        second == IF Len(clusters) >= 2 THEN Len(clusters[2].weeks) ELSE 0
    IN  [route_id |-> route_id,
         total_weeks |-> total_weeks,
         num_clusters |-> Len(clusters),
         largest_cluster_size |-> largest,
         largest_cluster_pct |-> Pct(largest, total_weeks),
         clusters |-> clusters,
         cluster_contiguity |-> ClusterContiguity(clusters),
         second_cluster_size |-> second,
         second_cluster_pct |-> Pct(second, total_weeks),
         top2_coverage |-> Pct(largest + second, total_weeks)]

\* A chain without the single-cluster rule.
RigorousCategoryNoSingleRule(record) ==
    IF /\ record.num_clusters = 2
       /\ record.cluster_contiguity[1]
       /\ record.cluster_contiguity[2]
    THEN "timetable_changeover"
    ELSE IF PctGE(record.largest_cluster_pct, 85) /\ record.num_clusters <= 5
         THEN "holiday_exceptions"
    ELSE IF record.num_clusters <= 5 /\ PctGE(record.top2_coverage, 75)
         THEN "multiple_stable_periods"
    ELSE "chaotic"

\* A chain that tests the 85% rule before the two-cluster rule.
RigorousCategoryLargestFirst(record) ==
    IF record.num_clusters = 1 THEN "fully_stable"
    ELSE IF PctGE(record.largest_cluster_pct, 85) /\ record.num_clusters <= 5
         THEN "holiday_exceptions"
    ELSE IF /\ record.num_clusters = 2
            /\ record.cluster_contiguity[1]
            /\ record.cluster_contiguity[2]
         THEN "timetable_changeover"
    ELSE IF record.num_clusters <= 5 /\ PctGE(record.top2_coverage, 75)
         THEN "multiple_stable_periods"
    ELSE "chaotic"

\* The if / elif chain under "# Categorize".
RigorousCategory(record) ==
    IF record.num_clusters = 1 THEN "fully_stable"
    ELSE IF /\ record.num_clusters = 2
            /\ record.cluster_contiguity[1]
            /\ record.cluster_contiguity[2]
         THEN "timetable_changeover"
    ELSE IF PctGE(record.largest_cluster_pct, 85) /\ record.num_clusters <= 5
         THEN "holiday_exceptions"
    ELSE IF record.num_clusters <= 5 /\ PctGE(record.top2_coverage, 75)
         THEN "multiple_stable_periods"
    ELSE "chaotic"

----------------------------------------------------------------------------
(* The four-bucket policy (bank-holiday analysis).                         *)

\* Counter(week_signatures.values()): each signature's count, in the order
\* the signatures are first met.
RECURSIVE CountSignatures(_, _, _)
CountSignatures(keys, sigs, acc) ==
    IF keys = <<>> THEN acc
    ELSE LET sig == sigs.at[Head(keys)]
             n == IF Has(acc, sig) THEN acc.at[sig] ELSE 0
         IN  CountSignatures(Tail(keys), sigs, Put(acc, sig, n + 1))

\* most_common(1)[0]: the first signature, in counter order, whose count
\* is the largest.
MostCommon(counts) ==
    LET i == CHOOSE i \in DOMAIN counts.keys :
                /\ \A j \in DOMAIN counts.keys :
                      counts.at[counts.keys[j]] <= counts.at[counts.keys[i]]
                /\ \A j \in 1..(i - 1) :
                      counts.at[counts.keys[j]] < counts.at[counts.keys[i]]
    IN  counts.keys[i]

\* sorted(list of week keys): the keys compare as their numbers do.
RECURSIVE SortedWeeks(_)
SortedWeeks(S) ==
    IF S = {} THEN <<>>
    ELSE LET m == CHOOSE x \in S : \A y \in S : WeekNum(x) <= WeekNum(y)
         IN  <<m>> \o SortedWeeks(S \ {m})

CoarseRecord(route_id, weeks) ==
    LET sigs == WeekSignatures(weeks)
        signature_counts == CountSignatures(sigs.keys, sigs, EmptyDict)
        most_common_sig == MostCommon(signature_counts)
        most_common_count == signature_counts.at[most_common_sig]
        total_weeks == Len(weeks.keys)
        typical == {w \in DOMAIN sigs.at : sigs.at[w] = most_common_sig}
        exceptional == {w \in DOMAIN sigs.at : sigs.at[w] # most_common_sig}
    IN  [route_id |-> route_id,
         total_weeks |-> total_weeks,
         typical_weeks |-> most_common_count,
         typical_pct |-> Pct(most_common_count, total_weeks),
         exceptional_weeks |-> Cardinality(exceptional),
         num_patterns |-> Len(signature_counts.keys),
         typical_week_list |-> SortedWeeks(typical),
         exceptional_week_list |-> SortedWeeks(exceptional)]

\* A chain whose third test is strict.
CoarseCategoryStrictSeventy(record) ==
    IF PctEq100(record.typical_pct) THEN "fully_stable"
    ELSE IF PctGE(record.typical_pct, 90) THEN "mostly_stable"
    ELSE IF record.typical_pct.num > 70 * record.typical_pct.den
         THEN "some_variation"
    ELSE "high_variation"

\* The if / elif chain under "# Categorize" of the bank-holiday analysis.
CoarseCategory(record) ==
    IF PctEq100(record.typical_pct) THEN "fully_stable"
    ELSE IF PctGE(record.typical_pct, 90) THEN "mostly_stable"
    ELSE IF PctGE(record.typical_pct, 70) THEN "some_variation"
    ELSE "high_variation"

\* results: one list of records per category.
EmptyResults(v) ==
    [c \in (IF v = "rigorous" THEN RigorousCategories ELSE CoarseCategories)
        |-> <<>>]

\* An iteration that also leaves out the routes of exactly the minimum.
ClassifyIntoAboveMinimum(res, v, route_id, weeks) ==
    IF v = "rigorous"
    THEN IF Len(weeks.keys) <= MinWeeksRigorous THEN res
         ELSE LET record == RigorousRecord(route_id, weeks)
                  c == RigorousCategory(record)
              IN  [res EXCEPT ![c] = Append(@, record)]
    ELSE IF Len(weeks.keys) <= MinWeeksCoarse THEN res
         ELSE LET record == CoarseRecord(route_id, weeks)
                  c == CoarseCategory(record)
              IN  [res EXCEPT ![c] = Append(@, record)]

\* One iteration of "for route_id, data in route_weekly_data.items()".
ClassifyInto(res, v, route_id, weeks) ==
    IF v = "rigorous"
    THEN IF Len(weeks.keys) < MinWeeksRigorous THEN res
         ELSE LET record == RigorousRecord(route_id, weeks)
                  c == RigorousCategory(record)
              IN  [res EXCEPT ![c] = Append(@, record)]
    ELSE IF Len(weeks.keys) < MinWeeksCoarse THEN res
         ELSE LET record == CoarseRecord(route_id, weeks)
                  c == CoarseCategory(record)
              IN  [res EXCEPT ![c] = Append(@, record)]

\* total_routes = sum(len(results[k]) for k in results.keys())
RECURSIVE SumLens(_, _)
SumLens(res, cats) ==
    IF cats = {} THEN 0
    ELSE LET c == CHOOSE c \in cats : TRUE
         IN  Len(res[c]) + SumLens(res, cats \ {c})

TotalRoutes(res) == SumLens(res, DOMAIN res)

----------------------------------------------------------------------------
(* The programs as a state machine.                                        *)

VARIABLES
    variant,              \* "rigorous" or "coarse": which program runs
    feed,                 \* the GTFS feed on disk
    source,               \* the holiday calendar the remote server holds
    bank_holidays,        \* main: the fetched holiday dates
    additional_exclusions,\* the analysis function's third argument
    pass,                 \* 1 or 2: which call of the analysis function
    pc,                   \* the control location
    bank_holiday_weeks,   \* the week keys the expansion skips
    row,                  \* index of the trip row being expanded
    current_date,         \* the while loop's cursor
    touched,              \* the week keys the current row was recorded in
    route_weekly_data,    \* route -> weeks -> week record
    route_idx,            \* index of the route being classified
    results,              \* category -> records, inside the analysis
    ret,                  \* what the analysis function returned
    results_pass1,        \* main: the first pass's results
    exc,                  \* the exception that ended the process
    recommendation,       \* main: the publication summary it printed
    call,                 \* a function applied on its own: name, argument, result
    io                    \* main's dealings with the outside: fetches, feed, exit

vars ==
    <<variant, feed, source, bank_holidays, additional_exclusions, pass, pc,
      bank_holiday_weeks, row, current_date, touched, route_weekly_data,
      route_idx, results, ret, results_pass1, exc, recommendation, call, io>>

\* The rows the for loop iterates over.
Rows == TripsWithCal(feed)

\* "calendar is None or calendar.empty"
CalendarMissing(f) == ~f.calendar.present \/ DOMAIN f.calendar.rows = {}

\* "if count >= 10": a week that many routes flag is excluded in pass 2.
CommonRouteThreshold == 10

\* A main that reports a failed fetch and carries on without holidays.
StartupIgnoresFetchFailure ==
    /\ pc = "start"
    /\ pc' = "entry"
    /\ io' = [io EXCEPT !.fetches = IF variant = "coarse" THEN @ + 1 ELSE @,
                        !.stderr = IF variant = "coarse" /\ ~source.ok
                                   THEN "ERROR fetching bank holidays" ELSE @,
                        !.feed_read = TRUE]
    /\ bank_holidays' = IF variant = "coarse" THEN source.dates ELSE {}
    /\ UNCHANGED <<variant, feed, source, additional_exclusions, pass,
                   bank_holiday_weeks, row, current_date, touched,
                   route_weekly_data, route_idx, results, ret, results_pass1,
                   exc, recommendation>>
    /\ UNCHANGED call

\* main: the bank-holiday main fetches the holiday list once; any exception
\* in the fetch is reported on stderr and ends the process (sys.exit(1)).
\* Then the feed is read and the first pass starts.  The rigorous main has
\* no fetch.
Startup ==
    /\ pc = "start"
    /\ IF variant = "coarse" /\ ~source.ok
       THEN /\ pc' = "exited"
            /\ io' = [io EXCEPT !.fetches = @ + 1,
                                !.stderr = "ERROR fetching bank holidays",
                                !.exit_status = 1]
            /\ UNCHANGED bank_holidays
       ELSE /\ pc' = "entry"
            /\ io' = [io EXCEPT !.fetches = IF variant = "coarse" THEN @ + 1 ELSE @,
                                !.feed_read = TRUE]
            /\ bank_holidays' = IF variant = "coarse" THEN source.dates ELSE {}
    /\ UNCHANGED <<variant, feed, source, additional_exclusions, pass,
                   bank_holiday_weeks, row, current_date, touched,
                   route_weekly_data, route_idx, results, ret, results_pass1,
                   exc, recommendation>>
    /\ UNCHANGED call

\* An analysis function that leaves its third argument out.
AnalysisEntryDropsAdditional ==
    /\ pc = "entry"
    /\ IF CalendarMissing(feed)
       THEN /\ ret' = "None"
            /\ pc' = "resume"
            /\ UNCHANGED <<bank_holiday_weeks, row, route_weekly_data,
                           results, touched>>
       ELSE /\ bank_holiday_weeks' =
                  IF variant = "coarse"
                  THEN {get_week_key(d) : d \in bank_holidays}
                  ELSE {}
            /\ route_weekly_data' = EmptyDict
            /\ results' = EmptyResults(variant)
            /\ row' = 1
            /\ touched' = <<>>
            /\ pc' = "rows"
            /\ UNCHANGED ret
    /\ UNCHANGED <<variant, feed, source, bank_holidays,
                   additional_exclusions, pass, current_date, route_idx,
                   results_pass1, exc, recommendation>>
    /\ UNCHANGED <<call, io>>

\* The analysis function up to the row loop: no calendar, no result;
\* otherwise the excluded weeks are collected and the tables are emptied.
AnalysisEntry ==
    /\ pc = "entry"
    /\ IF CalendarMissing(feed)
       THEN /\ ret' = "None"
            /\ pc' = "resume"
            /\ UNCHANGED <<bank_holiday_weeks, row, route_weekly_data,
                           results, touched>>
       ELSE /\ bank_holiday_weeks' =
                  IF variant = "coarse"
                  THEN {get_week_key(d) : d \in bank_holidays}
                           \cup additional_exclusions
                  ELSE {}
            /\ route_weekly_data' = EmptyDict
            /\ results' = EmptyResults(variant)
            /\ row' = 1
            /\ touched' = <<>>
            /\ pc' = "rows"
            /\ UNCHANGED ret
    /\ UNCHANGED <<variant, feed, source, bank_holidays,
                   additional_exclusions, pass, current_date, route_idx,
                   results_pass1, exc, recommendation>>
    /\ UNCHANGED <<call, io>>

\* The head of the row loop and the row's prologue: a row with a missing
\* date is skipped; the route entry is created; int() of a date that is not
\* a number raises ValueError outside the try block; a row whose dates do
\* not parse is skipped; any other row enters the while loop.
NextRow ==
    /\ pc = "rows"
    /\ IF row > Len(Rows)
       THEN /\ pc' = IF variant = "rigorous" THEN "freeze" ELSE "classify"
            /\ route_idx' = 1
            /\ UNCHANGED <<row, current_date, touched, route_weekly_data, exc>>
       ELSE LET r == Rows[row]
            IN  IF r.start_date = NaN \/ r.end_date = NaN
                THEN /\ row' = row + 1
                     /\ UNCHANGED <<pc, current_date, touched,
                                    route_weekly_data, route_idx, exc>>
                ELSE /\ route_weekly_data' =
                            TouchRoute(route_weekly_data, r.route_id)
                     /\ IF IntFails(r.start_date) \/ IntFails(r.end_date)
                        THEN /\ exc' = "ValueError"
                             /\ pc' = "crashed"
                             /\ UNCHANGED <<row, current_date, touched>>
                        ELSE IF DateParses(r.start_date) /\ DateParses(r.end_date)
                        THEN /\ current_date' = ParseDate(r.start_date)
                             /\ touched' = <<>>
                             /\ pc' = "while"
                             /\ UNCHANGED <<row, exc>>
                        ELSE /\ row' = row + 1
                             /\ UNCHANGED <<pc, current_date, touched, exc>>
                     /\ UNCHANGED route_idx
    /\ UNCHANGED <<variant, feed, source, bank_holidays,
                   additional_exclusions, pass, bank_holiday_weeks, results,
                   ret, results_pass1, recommendation>>
    /\ UNCHANGED <<call, io>>

\* A while loop that leaves the row at the first excluded week.
WhileLoopStopsAtExcludedWeek ==
    /\ pc = "while"
    /\ LET r == Rows[row]
           week_key == get_week_key(current_date)
       IN  IF /\ current_date <= ParseDate(r.end_date)
              /\ ~(variant = "coarse" /\ week_key \in bank_holiday_weeks)
           THEN /\ route_weekly_data' =
                       WhileBody(route_weekly_data, variant,
                                 bank_holiday_weeks, r,
                                 DepartureCount(feed, r.trip_id), current_date)
                /\ touched' =
                       IF variant = "coarse" /\ week_key \in bank_holiday_weeks
                       THEN touched ELSE Append(touched, week_key)
                /\ current_date' = NextCursor(current_date)
                /\ UNCHANGED <<pc, row>>
           ELSE /\ row' = row + 1
                /\ pc' = "rows"
                /\ UNCHANGED <<route_weekly_data, touched, current_date>>
    /\ UNCHANGED <<variant, feed, source, bank_holidays,
                   additional_exclusions, pass, bank_holiday_weeks,
                   route_idx, results, ret, results_pass1, exc,
                   recommendation>>
    /\ UNCHANGED <<call, io>>

\* A while loop whose excluded-week branch leaves the cursor where it is.
WhileLoopExcludedStays ==
    /\ pc = "while"
    /\ LET r == Rows[row]
           week_key == get_week_key(current_date)
       IN  IF current_date <= ParseDate(r.end_date)
           THEN /\ route_weekly_data' =
                       WhileBody(route_weekly_data, variant,
                                 bank_holiday_weeks, r,
                                 DepartureCount(feed, r.trip_id), current_date)
                /\ touched' =
                       IF variant = "coarse" /\ week_key \in bank_holiday_weeks
                       THEN touched ELSE Append(touched, week_key)
                /\ current_date' =
                       IF variant = "coarse" /\ week_key \in bank_holiday_weeks
                       THEN current_date ELSE NextCursor(current_date)
                /\ UNCHANGED <<pc, row>>
           ELSE /\ row' = row + 1
                /\ pc' = "rows"
                /\ UNCHANGED <<route_weekly_data, touched, current_date>>
    /\ UNCHANGED <<variant, feed, source, bank_holidays,
                   additional_exclusions, pass, bank_holiday_weeks,
                   route_idx, results, ret, results_pass1, exc,
                   recommendation>>
    /\ UNCHANGED <<call, io>>

\* The while loop's test and one iteration of its body.
WhileLoop ==
    /\ pc = "while"
    /\ LET r == Rows[row]
           week_key == get_week_key(current_date)
       IN  IF current_date <= ParseDate(r.end_date)
           THEN /\ route_weekly_data' =
                       WhileBody(route_weekly_data, variant,
                                 bank_holiday_weeks, r,
                                 DepartureCount(feed, r.trip_id), current_date)
                /\ touched' =
                       IF variant = "coarse" /\ week_key \in bank_holiday_weeks
                       THEN touched ELSE Append(touched, week_key)
                /\ current_date' = NextCursor(current_date)
                /\ UNCHANGED <<pc, row>>
           ELSE /\ row' = row + 1
                /\ pc' = "rows"
                /\ UNCHANGED <<route_weekly_data, touched, current_date>>
    /\ UNCHANGED <<variant, feed, source, bank_holidays,
                   additional_exclusions, pass, bank_holiday_weeks,
                   route_idx, results, ret, results_pass1, exc,
                   recommendation>>
    /\ UNCHANGED <<call, io>>

\* Rigorous analysis: "Convert sets to frozensets for hashing".
FreezeSets ==
    /\ pc = "freeze"
    /\ route_weekly_data' = FreezeAll(route_weekly_data)
    /\ pc' = "classify"
    /\ UNCHANGED <<variant, feed, source, bank_holidays,
                   additional_exclusions, pass, bank_holiday_weeks, row,
                   current_date, touched, route_idx, results, ret,
                   results_pass1, exc, recommendation>>
    /\ UNCHANGED <<call, io>>

\* The route loop: one route is clustered and put in its category.
ClassifyRoute ==
    /\ pc = "classify"
    /\ IF route_idx > Len(route_weekly_data.keys)
       THEN /\ pc' = "print"
            /\ UNCHANGED <<route_idx, results>>
       ELSE LET route_id == route_weekly_data.keys[route_idx]
            IN  /\ results' = ClassifyInto(results, variant, route_id,
                                   route_weekly_data.at[route_id].weeks)
                /\ route_idx' = route_idx + 1
                /\ UNCHANGED pc
    /\ UNCHANGED <<variant, feed, source, bank_holidays,
                   additional_exclusions, pass, bank_holiday_weeks, row,
                   current_date, touched, route_weekly_data, ret,
                   results_pass1, exc, recommendation>>
    /\ UNCHANGED <<call, io>>

\* "# Print results": every count is divided by total_routes; then the
\* function returns results.
PrintResults ==
    /\ pc = "print"
    /\ IF TotalRoutes(results) = 0
       THEN /\ exc' = "ZeroDivisionError"
            /\ pc' = "crashed"
            /\ UNCHANGED ret
       ELSE /\ ret' = "results"
            /\ pc' = "resume"
            /\ UNCHANGED exc
    /\ UNCHANGED <<variant, feed, source, bank_holidays,
                   additional_exclusions, pass, bank_holiday_weeks, row,
                   current_date, touched, route_weekly_data, route_idx,
                   results, results_pass1, recommendation>>
    /\ UNCHANGED <<call, io>>

\* The records the first pass's counter runs over.
CountedRecords(res) ==
    UNION {{<<c, i>> : i \in DOMAIN res[c]} :
               c \in {"mostly_stable", "some_variation"}}

\* all_exceptional_pass1[week]
ExceptionalCount(res, week) ==
    Cardinality({ci \in CountedRecords(res) :
                    week \in Range(res[ci[1]][ci[2]].exceptional_week_list)})

ExceptionalWeeks(res) ==
    UNION {Range(res[ci[1]][ci[2]].exceptional_week_list) :
               ci \in CountedRecords(res)}

\* common_exceptional_weeks
CommonExceptionalWeeks(res) ==
    {week \in ExceptionalWeeks(res) :
        ExceptionalCount(res, week) >= CommonRouteThreshold}

\* main, after the analysis function returned.  The rigorous main calls
\* results.keys(), the bank-holiday main indexes results_pass1; neither
\* tests for None.  The bank-holiday main runs a second pass when some
\* week is flagged by enough routes.
MainResume ==
    /\ pc = "resume"
    /\ IF ret = "None"
       THEN /\ exc' = IF variant = "rigorous" \/ pass = 2
                      THEN "AttributeError" ELSE "TypeError"
            /\ pc' = "crashed"
            /\ UNCHANGED <<results_pass1, additional_exclusions, pass>>
       ELSE IF variant = "coarse" /\ pass = 1
       THEN /\ results_pass1' = results
            /\ IF CommonExceptionalWeeks(results) # {}
               THEN /\ additional_exclusions' = CommonExceptionalWeeks(results)
                    /\ pass' = 2
                    /\ pc' = "entry"
               ELSE /\ pc' = "recommend"
                    /\ UNCHANGED <<additional_exclusions, pass>>
            /\ UNCHANGED exc
       ELSE /\ pc' = "recommend"
            /\ UNCHANGED <<results_pass1, additional_exclusions, pass, exc>>
    /\ UNCHANGED <<variant, feed, source, bank_holidays, bank_holiday_weeks,
                   row, current_date, touched, route_weekly_data, route_idx,
                   results, ret, recommendation>>
    /\ UNCHANGED <<call, io>>

\* A summary whose first test is strict.
CoarseRecommendationStrict(res) ==
    LET total == TotalRoutes(res)
        publishable == Len(res["fully_stable"]) + Len(res["mostly_stable"])
    IN  IF publishable * 10 > 8 * total THEN "excellent"
        ELSE IF publishable * 10 >= 6 * total THEN "good"
        ELSE "only"

\* publishable / total >= 0.8, >= 0.6, else.
CoarseRecommendation(res) ==
    LET total == TotalRoutes(res)
        publishable == Len(res["fully_stable"]) + Len(res["mostly_stable"])
    IN  IF publishable * 10 >= 8 * total THEN "excellent"
        ELSE IF publishable * 10 >= 6 * total THEN "good"
        ELSE "only"

\* main's summary: the publishable count is divided by the total.
Recommend ==
    /\ pc = "recommend"
    /\ IF TotalRoutes(results) = 0
       THEN /\ exc' = "ZeroDivisionError"
            /\ pc' = "crashed"
            /\ UNCHANGED recommendation
       ELSE /\ recommendation' =
                  IF variant = "coarse" THEN CoarseRecommendation(results)
                  ELSE "bottom_line"
            /\ pc' = "done"
            /\ UNCHANGED exc
    /\ UNCHANGED <<variant, feed, source, bank_holidays,
                   additional_exclusions, pass, bank_holiday_weeks, row,
                   current_date, touched, route_weekly_data, route_idx,
                   results, ret, results_pass1>>
    /\ UNCHANGED <<call, io>>

----------------------------------------------------------------------------
(* The feeds the runs start from.                                          *)

\* At most this many trip rows.
MaxTrips == 2

RouteIds == {"r1", "r2"}

ServiceIds == {"s1", "s2"}

Weekdays == <<1, 1, 1, 1, 1, 0, 0>>

Weekend == <<0, 0, 0, 0, 0, 1, 1>>

\* Sat 2025-W51, Mon 2026-W01, Mon 2026-W03.
StartDates == {20251220, 20251229, 20260112}

\* Sun 2025-W52, Thu 2026-W01, Sun 2026-W03.
EndDates == {20251228, 20260101, 20260118}

CalendarRow(days) ==
    {[days |-> p, start_date |-> a, end_date |-> b] :
        p \in days, a \in StartDates, b \in EndDates}

\* No table, an empty table, s1 alone, or s1 and s2 (s2 with
\* start_date <= end_date).
Calendars ==
    {[present |-> FALSE, rows |-> <<>>], [present |-> TRUE, rows |-> <<>>]}
    \cup {[present |-> TRUE, rows |-> ("s1" :> a)] :
              a \in CalendarRow({Weekdays})}
    \cup {[present |-> TRUE, rows |-> ("s1" :> a) @@ ("s2" :> b)] :
              a \in CalendarRow({Weekdays}),
              b \in {c \in CalendarRow({Weekdays, Weekend}) :
                        c.start_date <= c.end_date}}

\* Trip i has trip_id i.
TripTable(choice) ==
    [i \in DOMAIN choice |->
        [trip_id |-> i, route_id |-> choice[i][1], service_id |-> choice[i][2]]]

\* Up to MaxTrips rows; the route ids being opaque, the first row's is r1.
TripTables ==
    {TripTable(ch) :
        ch \in {c \in UNION {[1..n -> RouteIds \X ServiceIds] : n \in 0..MaxTrips} :
                   c # <<>> => c[1][1] = "r1"}}

\* stop_times rows per trip_id: trip 1 has three, trip 2 two, others none.
StopTimes == (1 :> 3) @@ (2 :> 2)

Feeds ==
    {[calendar |-> c, trips |-> t, stop_times |-> StopTimes] :
        c \in Calendars, t \in TripTables}

\* The fetch fails (no connection, an HTTP error status, or a body that is
\* not a calendar), or yields no holiday, or New Year's Day 2026.
HolidaySources ==
    {[ok |-> FALSE, fault |-> k, dates |-> {}] : k \in {"network", "http", "parse"}}
    \cup {[ok |-> TRUE, fault |-> "none", dates |-> {}],
          [ok |-> TRUE, fault |-> "none", dates |-> {Ymd2Ord(2026, 1, 1)}]}

\* Nothing fetched, no feed read, nothing written to stderr, no exit.
NoIO == [fetches |-> 0, feed_read |-> FALSE, stderr |-> "", exit_status |-> 0]

\* No function is applied on its own.
NoCall == [fn |-> "none", arg |-> <<>>, done |-> FALSE, ret |-> FALSE]

\* The state main starts in, for a feed and a holiday source.
StartState(v, f, src) ==
    /\ variant = v
    /\ feed = f
    /\ source = src
    /\ bank_holidays = {}
    /\ additional_exclusions = {}
    /\ pass = 1
    /\ pc = "start"
    /\ bank_holiday_weeks = {}
    /\ row = 1
    /\ current_date = 0
    /\ touched = <<>>
    /\ route_weekly_data = EmptyDict
    /\ route_idx = 1
    /\ results = <<>>
    /\ ret = "unset"
    /\ results_pass1 = <<>>
    /\ exc = "none"
    /\ recommendation = "unset"
    /\ call = NoCall
    /\ io = NoIO

Init ==
    \E v \in {"rigorous", "coarse"}, f \in Feeds, src \in HolidaySources :
        /\ v = "rigorous" => src = [ok |-> TRUE, fault |-> "none", dates |-> {}]
        /\ StartState(v, f, src)

Next ==
    \/ Startup
    \/ AnalysisEntry
    \/ NextRow
    \/ WhileLoop
    \/ FreezeSets
    \/ ClassifyRoute
    \/ PrintResults
    \/ MainResume
    \/ Recommend

Spec == Init /\ [][Next]_vars

----------------------------------------------------------------------------
(* Properties of the week expansion.                                       *)

\* The ISO weeks that hold at least one date of [date_start, date_end].
WeeksOfInterval(date_start, date_end) ==
    {get_week_key(d) : d \in date_start..date_end}

RouteWeeks(route_id) ==
    IF Has(route_weekly_data, route_id)
    THEN route_weekly_data.at[route_id].weeks
    ELSE EmptyDict

\* C1: with no excluded weeks, the while loop records a row in weeks of its
\* interval only, in no week twice, and by the time the cursor has passed
\* end_date in every ISO week that holds a date of [start_date, end_date].
C1_WeekExpansionCoverage ==
    (pc = "while" /\ bank_holiday_weeks = {}) =>
        LET r == Rows[row]
            date_start == ParseDate(r.start_date)
            date_end == ParseDate(r.end_date)
            weeks == WeeksOfInterval(date_start, date_end)
        IN  /\ Range(touched) \subseteq weeks
            /\ Cardinality(Range(touched)) = Len(touched)
            /\ \A w \in Range(touched) :
                  /\ Has(RouteWeeks(r.route_id), w)
                  /\ r.service_id \in RouteWeeks(r.route_id).at[w].service_ids
            /\ current_date > date_end => Range(touched) = weeks

\* C1 witness: a row that starts on a Saturday and ends on a Thursday three
\* ISO weeks later, across the ISO year boundary, has left the loop.
C1_Witness ==
    /\ pc = "while"
    /\ bank_holiday_weeks = {}
    /\ Rows[row].start_date = 20251220
    /\ Rows[row].end_date = 20260101
    /\ current_date > ParseDate(Rows[row].end_date)
    /\ touched = <<<<2025, 51>>, <<2025, 52>>, <<2026, 1>>>>

----------------------------------------------------------------------------
(* Properties of the accumulated week records.                             *)

\* The expansion pass is over (and, in the rigorous analysis, the sets are
\* frozen): the route loop is about to run or running.
Expanded == pc = "classify"

RowHasDates(r) ==
    /\ r.start_date # NaN /\ r.end_date # NaN
    /\ DateParses(r.start_date) /\ DateParses(r.end_date)

\* The rows of a route whose interval holds a date of the week.
TouchingRows(route_id, week_key) ==
    {i \in DOMAIN Rows :
        /\ Rows[i].route_id = route_id
        /\ RowHasDates(Rows[i])
        /\ week_key \in WeeksOfInterval(ParseDate(Rows[i].start_date),
                                        ParseDate(Rows[i].end_date))}

RECURSIVE SumDepartures(_)
SumDepartures(S) ==
    IF S = {} THEN 0
    ELSE LET i == CHOOSE i \in S : TRUE
         IN  DepartureCount(feed, Rows[i].trip_id) + SumDepartures(S \ {i})

\* The signature of every (route, week) of a week table.
SignatureTable(data) ==
    [route_id \in DOMAIN data.at |->
        WeekSignatures(data.at[route_id].weeks).at]

\* The cluster partition of every route: the sets of weeks that share a
\* signature.
PartitionTable(data) ==
    [route_id \in DOMAIN data.at |->
        LET sigs == WeekSignatures(data.at[route_id].weeks).at
        IN  {{w \in DOMAIN sigs : sigs[w] = sigs[x]} : x \in DOMAIN sigs}]

PermutedRows(perm) == [i \in DOMAIN Rows |-> Rows[perm[i]]]

\* C3: whatever the order of the trip rows, the pipeline ends with the same
\* signature for every (route, week) and the same cluster partition for
\* every route.
C3_RowOrderDeterminism ==
    Expanded =>
        \A perm \in Permutations(DOMAIN Rows) :
            LET other == ExpansionPass(variant, bank_holiday_weeks, feed,
                                       PermutedRows(perm))
            IN  /\ SignatureTable(other) = SignatureTable(route_weekly_data)
                /\ PartitionTable(other) = PartitionTable(route_weekly_data)

\* C4: in the rigorous analysis, after the expansion pass and the frozenset
\* conversion, every week record holds the service ids of all the route's
\* rows that touch the week, and the sum of their departure counts.
C4_ServiceIdsAreUnion ==
    (Expanded /\ variant = "rigorous") =>
        \A route_id \in DOMAIN route_weekly_data.at :
            \A w \in DOMAIN RouteWeeks(route_id).at :
                LET rec == RouteWeeks(route_id).at[w]
                    touching == TouchingRows(route_id, w)
                IN  /\ rec.service_ids = {Rows[i].service_id : i \in touching}
                    /\ rec.total_departures = SumDepartures(touching)

\* C9: with no route classified, nothing is divided by the empty total: the
\* run does not end in ZeroDivisionError.
C9_NoDivisionByZero ==
    (pc \in {"print", "resume", "recommend", "done", "crashed"}
        /\ ret # "None" /\ TotalRoutes(results) = 0)
    => exc # "ZeroDivisionError"

\* C10: when the calendar table is missing or empty the analysis function
\* returns None and neither it nor main raises.
C10_MissingCalendarNoException ==
    CalendarMissing(feed) =>
        /\ exc = "none"
        /\ pc \in {"resume", "recommend", "done"} => ret = "None"

----------------------------------------------------------------------------
(* The contiguity test applied on its own to lists of ISO week keys.       *)

\* The week lists hold at most this many weeks.
ContigSpan == 10

\* Mondays of 2025-W01, 2025-W50 (2025 has 52 ISO weeks) and 2026-W51
\* (2026 has 53).
ContigBases == {Ymd2Ord(2024, 12, 30), Ymd2Ord(2025, 12, 8), Ymd2Ord(2026, 12, 14)}

\* Week keys of the chosen weeks after a base Monday, in calendar order.
WeekListFrom(base, offsets) ==
    SortedWeeks({get_week_key(base + 7 * k) : k \in offsets})

WeekLists ==
    {WeekListFrom(base, offsets) :
        base \in ContigBases, offsets \in SUBSET (0..(ContigSpan - 1))}

\* Every variable of the analysis programs at rest.
ProgramsIdle ==
    /\ variant = "none"
    /\ feed = <<>>
    /\ source = <<>>
    /\ bank_holidays = {}
    /\ additional_exclusions = {}
    /\ pass = 1
    /\ pc = "idle"
    /\ bank_holiday_weeks = {}
    /\ row = 1
    /\ current_date = 0
    /\ touched = <<>>
    /\ route_weekly_data = EmptyDict
    /\ route_idx = 1
    /\ results = <<>>
    /\ ret = "unset"
    /\ results_pass1 = <<>>
    /\ exc = "none"
    /\ recommendation = "unset"

ProgramVars ==
    <<variant, feed, source, bank_holidays, additional_exclusions, pass, pc,
      bank_holiday_weeks, row, current_date, touched, route_weekly_data,
      route_idx, results, ret, results_pass1, exc, recommendation>>

InitContig ==
    /\ ProgramsIdle
    /\ io = NoIO
    /\ \E fn \in {"is_contiguous", "single_route"}, week_list \in WeekLists :
          call = [fn |-> fn, arg |-> week_list, done |-> FALSE, ret |-> FALSE]

\* is_contiguous(week_list) of the rigorous analysis.
ApplyIsContiguous ==
    /\ call.fn = "is_contiguous"
    /\ ~call.done
    /\ call' = [call EXCEPT !.done = TRUE, !.ret = is_contiguous(call.arg)]
    /\ UNCHANGED ProgramVars
    /\ UNCHANGED io

\* The contiguity report of analyze_single_route, which it makes of lists
\* of more than one week.
ApplySingleRoute ==
    /\ call.fn = "single_route"
    /\ ~call.done
    /\ Len(call.arg) > 1
    /\ call' = [call EXCEPT !.done = TRUE, !.ret = SingleRouteContiguous(call.arg)]
    /\ UNCHANGED ProgramVars
    /\ UNCHANGED io

NextContig == ApplyIsContiguous \/ ApplySingleRoute

SpecContig == InitContig /\ [][NextContig]_vars

\* The gaps as the claim counts them: a difference of 49 to 51 is 1.
RECURSIVE ClaimedSumGaps(_)
ClaimedSumGaps(nums) ==
    IF Len(nums) <= 1 THEN 0
    ELSE (IF nums[2] - nums[1] \in 49..51 THEN 1 ELSE nums[2] - nums[1])
             + ClaimedSumGaps(Tail(nums))

\* C7: is_contiguous is true of a list of at most one week, and of a longer
\* list exactly when the gaps, with every difference from 49 to 51 counted
\* as 1, average at most 1.5.
C7_ContiguityRule ==
    (call.fn = "is_contiguous" /\ call.done) =>
        LET nums == SortedNums({WeekNum(w) : w \in Range(call.arg)})
        IN  call.ret = (\/ Len(call.arg) <= 1
                        \/ 2 * ClaimedSumGaps(nums) <= 3 * (Len(nums) - 1))

\* The Monday that starts an ISO week.
MondayOfWeek(week_key) == IsoWeek1Monday(week_key[1]) + 7 * (week_key[2] - 1)

\* The weeks of the list are consecutive ISO weeks, none missing.
ConsecutiveWeeks(week_list) ==
    LET mondays == {MondayOfWeek(w) : w \in Range(week_list)}
    IN  \A m \in mondays : (m - 7) \in mondays \/ (\A n \in mondays : m <= n)

\* C8: two or more consecutive ISO weeks are contiguous, within a year and
\* across a year boundary, whether the earlier year has 52 or 53 weeks;
\* 2025-W01, 2025-W05, 2025-W09 are not.
C8_ConsecutiveWeeksContiguous ==
    (call.fn = "is_contiguous" /\ call.done) =>
        /\ (Len(call.arg) >= 2 /\ ConsecutiveWeeks(call.arg)) => call.ret
        /\ call.arg = <<<<2025, 1>>, <<2025, 5>>, <<2025, 9>>>> => ~call.ret

----------------------------------------------------------------------------
(* Runs over feeds of many weeks: a base service and exceptions to it.     *)

\* The short feeds span at most this many weeks.
ShortWeeks == 6

\* The long feeds span at most this many weeks.
NumWeeks == 16

\* Monday of 2025-W51.
ClassifyBase == Ymd2Ord(2025, 12, 15)

\* The YYYYMMDD number of a date, as calendar.txt holds it.
DateNumber(n) ==
    YearOfOrdinal(n) * 10000 + MonthOfOrdinal(n) * 100 + DayOfOrdinal(n)

\* A calendar row that runs from the Monday of week a after the base to the
\* Sunday of week b.
WeekSpan(days, a, b) ==
    [days |-> days,
     start_date |-> DateNumber(ClassifyBase + 7 * a),
     end_date |-> DateNumber(ClassifyBase + 7 * b + 6)]

TripPlan(route_id, service_id, span) ==
    [route |-> route_id, service |-> service_id, span |-> span]

\* The feed whose trips.txt lists the planned trips in order and whose
\* calendar.txt holds their services.
PlanFeed(plan) ==
    [calendar |->
        [present |-> TRUE,
         rows |-> [s \in {plan[i].service : i \in DOMAIN plan} |->
                      plan[CHOOSE i \in DOMAIN plan : plan[i].service = s].span]],
     trips |-> [i \in DOMAIN plan |->
                  [trip_id |-> i, route_id |-> plan[i].route,
                   service_id |-> plan[i].service]],
     stop_times |-> StopTimes]

\* Route r1 runs service s1 for n weeks, with or without a service s2 over
\* some of those weeks and a weekend service s3 in one of them; route r2,
\* when present, runs s1.
ShortPlans ==
    {<<TripPlan("r1", "s1", WeekSpan(Weekdays, 0, n - 1))>> \o s2 \o s3
         \o (IF r2 THEN <<TripPlan("r2", "s1", WeekSpan(Weekdays, 0, n - 1))>>
             ELSE <<>>) :
        n \in 1..ShortWeeks,
        s2 \in {<<>>} \cup {<<TripPlan("r1", "s2", WeekSpan(Weekdays, a, b))>> :
                               a \in 0..(ShortWeeks - 1), b \in 0..(ShortWeeks - 1)},
        s3 \in {<<>>} \cup {<<TripPlan("r1", "s3", WeekSpan(Weekend, c, c))>> :
                               c \in 0..(ShortWeeks - 1)},
        r2 \in BOOLEAN}

PlanFits(plan) ==
    \A i \in DOMAIN plan :
        /\ plan[i].span.start_date <= plan[i].span.end_date
        /\ plan[i].span.end_date <= plan[1].span.end_date

ExceptionServices == <<"s2", "s3", "s4", "s5", "s6">>

\* Route r1 runs service s1 for n weeks and up to five other services for
\* one week each, in the weeks 1, 3, 5, 7, 9 after the base.
LongPlans ==
    {<<TripPlan("r1", "s1", WeekSpan(Weekdays, 0, n - 1))>>
         \o [i \in 1..k |->
                TripPlan("r1", ExceptionServices[i],
                         WeekSpan(Weekdays, 2 * i - 1, 2 * i - 1))] :
        n \in (NumWeeks - 3)..NumWeeks, k \in 0..Len(ExceptionServices)}

ClassifyFeeds ==
    {PlanFeed(plan) : plan \in {q \in ShortPlans : PlanFits(q)} \cup LongPlans}

InitClassify ==
    \E v \in {"rigorous", "coarse"}, f \in ClassifyFeeds,
       src \in {h \in HolidaySources : h.ok} :
        /\ v = "rigorous" => src = [ok |-> TRUE, fault |-> "none", dates |-> {}]
        /\ StartState(v, f, src)

SpecClassify == InitClassify /\ [][Next]_vars

\* Every record the analysis has filed, as <<category, record>>.
FiledRecords ==
    UNION {{<<c, results[c][i]>> : i \in DOMAIN results[c]} : c \in DOMAIN results}

RECURSIVE SumClusterSizes(_)
SumClusterSizes(clusters) ==
    IF clusters = <<>> THEN 0
    ELSE Len(Head(clusters).weeks) + SumClusterSizes(Tail(clusters))

\* The week lists are non-empty, hold no week twice, share no week, and
\* together hold exactly the observed weeks.
PartitionsWeeks(lists, observed) ==
    /\ \A i \in DOMAIN lists :
          lists[i] # <<>> /\ Cardinality(Range(lists[i])) = Len(lists[i])
    /\ \A i, j \in DOMAIN lists :
          i # j => Range(lists[i]) \cap Range(lists[j]) = {}
    /\ UNION {Range(lists[i]) : i \in DOMAIN lists} = observed

\* C2: the clusters of every classified route are non-empty and pairwise
\* disjoint, their union is the route's observed weeks and their sizes sum
\* to total_weeks; in the bank-holiday analysis the typical and the
\* exceptional weeks are disjoint and together are the observed weeks.
C2_ClustersPartitionWeeks ==
    \A cr \in FiledRecords :
        LET record == cr[2]
            observed == DOMAIN RouteWeeks(record.route_id).at
        IN  /\ record.total_weeks = Cardinality(observed)
            /\ variant = "rigorous" =>
                  /\ PartitionsWeeks([i \in DOMAIN record.clusters |->
                                         record.clusters[i].weeks], observed)
                  /\ SumClusterSizes(record.clusters) = record.total_weeks
                  /\ Len(record.clusters) = record.num_clusters
            /\ variant = "coarse" =>
                  /\ Range(record.typical_week_list)
                         \cap Range(record.exceptional_week_list) = {}
                  /\ Range(record.typical_week_list)
                         \cup Range(record.exceptional_week_list) = observed
                  /\ Len(record.typical_week_list)
                         + Len(record.exceptional_week_list) = record.total_weeks

\* C2 witness: a route of seven or more weeks was filed with three clusters,
\* the largest of them of several weeks.
C2_Witness ==
    /\ variant = "rigorous"
    /\ pc = "done"
    /\ \E cr \in FiledRecords :
          /\ cr[2].num_clusters = 3
          /\ cr[2].largest_cluster_size >= 2
          /\ cr[2].total_weeks >= 5

\* The sets of weeks of a route that share a signature.
WeekClasses(route_id) == PartitionTable(route_weekly_data)[route_id]

Largest(sizes) == CHOOSE x \in sizes : \A y \in sizes : y <= x

\* The category the five rules give a route, first match first.
PolicyCategory(route_id) ==
    LET classes == WeekClasses(route_id)
        count == Cardinality(classes)
        total == Cardinality(DOMAIN RouteWeeks(route_id).at)
        largest == Largest({Cardinality(p) : p \in classes})
        top2 == IF count = 1 THEN largest
                ELSE Largest({Cardinality(pq[1]) + Cardinality(pq[2]) :
                                 pq \in {x \in classes \X classes : x[1] # x[2]}})
    IN  IF count = 1 THEN "fully_stable"
        ELSE IF count = 2 /\ \A p \in classes : is_contiguous(SortedWeeks(p))
             THEN "timetable_changeover"
        ELSE IF 100 * largest >= 85 * total /\ count <= 5
             THEN "holiday_exceptions"
        ELSE IF count <= 5 /\ 100 * top2 >= 75 * total
             THEN "multiple_stable_periods"
        ELSE "chaotic"

\* The analysis function has filed every route it files.
Classified ==
    pc \in {"print", "resume", "recommend", "done", "crashed"} /\ ret # "None"

----------------------------------------------------------------------------
(* Runs over a route that service s1 serves from W01 to W10 of a year and  *)
(* a second service s2 serves within W05.                                  *)

DateSpan(days, first, last) ==
    [days |-> days, start_date |-> DateNumber(first), end_date |-> DateNumber(last)]

\* s1 from the Monday of W01 to the Sunday of W10; s2 for the whole of W05
\* or on its Wednesday only, on weekdays or at the weekend; the rows in
\* either order.
ScenarioPlans ==
    {LET a == TripPlan("r1", "s1",
                       DateSpan(Weekdays, MondayOfWeek(<<y, 1>>),
                                MondayOfWeek(<<y, 10>>) + 6))
         b == TripPlan("r1", "s2",
                       DateSpan(days, MondayOfWeek(<<y, 5>>) + from,
                                MondayOfWeek(<<y, 5>>) + to))
     IN  IF s2_last THEN <<a, b>> ELSE <<b, a>> :
        y \in {2025, 2026}, days \in {Weekdays, Weekend},
        from \in {0, 2}, to \in {2, 6}, s2_last \in BOOLEAN}

InitScenario ==
    \E v \in {"rigorous", "coarse"}, plan \in ScenarioPlans,
       src \in {h \in HolidaySources : h.ok} :
        /\ v = "rigorous" => src = [ok |-> TRUE, fault |-> "none", dates |-> {}]
        /\ StartState(v, PlanFeed(plan), src)

SpecScenario == InitScenario /\ [][Next]_vars

\* The route was observed in W01 to W10 of one year, and every week has the
\* same weekday pattern and service-id set except W05, whose service-id set
\* is another.
ScenarioObserved(route_id) ==
    LET weeks == RouteWeeks(route_id).at
    IN  \E y \in {2025, 2026} :
            /\ DOMAIN weeks = {<<y, w>> : w \in 1..10}
            /\ \A w \in (1..10) \ {5} : Signature(weeks[<<y, w>>]) = Signature(weeks[<<y, 1>>])
            /\ weeks[<<y, 5>>].weekday_pattern = weeks[<<y, 1>>].weekday_pattern
            /\ weeks[<<y, 5>>].service_ids # weeks[<<y, 1>>].service_ids

\* C6: a route observed in W01 to W10 with only W05 differing, in its
\* service-id set, has 2 clusters of 9 and 1 weeks, the largest 90% of the
\* weeks, and is filed under holiday_exceptions by the five-category policy
\* and under mostly_stable by the four-bucket policy.
C6_ScenarioClassification ==
    (Classified /\ ScenarioObserved("r1")) =>
        IF variant = "rigorous"
        THEN \E i \in DOMAIN results["holiday_exceptions"] :
                LET record == results["holiday_exceptions"][i]
                IN  /\ record.route_id = "r1"
                    /\ record.num_clusters = 2
                    /\ record.largest_cluster_size = 9
                    /\ record.second_cluster_size = 1
                    /\ record.largest_cluster_pct.num = 90 * record.largest_cluster_pct.den
        ELSE \E i \in DOMAIN results["mostly_stable"] :
                LET record == results["mostly_stable"][i]
                IN  /\ record.route_id = "r1"
                    /\ record.typical_weeks = 9
                    /\ record.typical_pct.num = 90 * record.typical_pct.den

----------------------------------------------------------------------------
(* The holiday fetch.                                                      *)

\* C20: when the bank-holiday fetch fails, whatever the failure, the
\* process exits with status 1 and a message on stderr after one attempt,
\* the feed unread and no analysis pass begun.
C20_FetchFailureIsFatal ==
    (variant = "coarse" /\ ~source.ok) =>
        /\ pc \in {"start", "exited"}
        /\ io.fetches <= 1
        /\ ~io.feed_read
        /\ pc = "exited" =>
              /\ io.fetches = 1
              /\ io.exit_status = 1
              /\ io.stderr = "ERROR fetching bank holidays"
              /\ pass = 1
              /\ ret = "unset"
              /\ route_weekly_data = EmptyDict
              /\ DOMAIN results = {}

\* C20 witness: the server answered with an HTTP error status and the
\* process has exited.
C20_Witness ==
    /\ variant = "coarse"
    /\ source.fault = "http"
    /\ pc = "exited"
    /\ io.fetches = 1

----------------------------------------------------------------------------
(* Excluded weeks.                                                         *)

\* route_weekly_data as the bank-holiday analysis builds it from the feed
\* when no week is excluded.
WithoutExclusions == ExpansionPass("coarse", {}, feed, Rows)

\* C13: after the expansion pass of the bank-holiday analysis no route has a
\* week record for an excluded week, and every other week has the record
\* it has in the run without exclusions: the weeks after an excluded week
\* are still recorded.
C13_ExclusionLeavesNothingBehind ==
    (Expanded /\ variant = "coarse") =>
        /\ DOMAIN route_weekly_data.at = DOMAIN WithoutExclusions.at
        /\ \A route_id \in DOMAIN route_weekly_data.at :
              LET weeks == RouteWeeks(route_id)
                  plain == WithoutExclusions.at[route_id].weeks
              IN  /\ Range(weeks.keys) \cap bank_holiday_weeks = {}
                  /\ DOMAIN weeks.at = Range(weeks.keys)
                  /\ DOMAIN weeks.at = DOMAIN plain.at \ bank_holiday_weeks
                  /\ \A w \in DOMAIN weeks.at : weeks.at[w] = plain.at[w]

\* C13 witness: 2026-W01 is excluded, a trip of r1 runs from 2025-W52 into
\* 2026-W02, and r1 has records for both and none for 2026-W01.
C13_Witness ==
    /\ Expanded
    /\ variant = "coarse"
    /\ bank_holiday_weeks = {<<2026, 1>>}
    /\ Has(WithoutExclusions, "r1")
    /\ Has(WithoutExclusions.at["r1"].weeks, <<2026, 1>>)
    /\ {<<2025, 52>>, <<2026, 2>>} \subseteq DOMAIN RouteWeeks("r1").at
    /\ <<2026, 1>> \notin DOMAIN RouteWeeks("r1").at

----------------------------------------------------------------------------
(* Runs of the bank-holiday main over feeds of many routes: enough routes  *)
(* for a week to be flagged by 10 of them, so that the second pass runs.   *)

\* At most this many routes.
MaxRoutes == 10

RouteNames ==
    <<"r1", "r2", "r3", "r4", "r5", "r6", "r7", "r8", "r9", "r10", "r11", "r12">>

\* Monday of 2026-W01: the week k weeks later is 2026-W(k+1).
TwoPassBase == MondayOfWeek(<<2026, 1>>)

TwoPassSpan(a, b) ==
    DateSpan(Weekdays, TwoPassBase + 7 * a, TwoPassBase + 7 * b + 6)

\* The trips of one route of a feed of len weeks.  Every shape but "apart"
\* runs s1 in all the weeks; e is the fifth week of a ten-week feed, the
\* third of a four-week feed.
\*   stable: s1 only            one:   s2 in week e
\*   two:    s2 in week e, s3 in another week
\*   three:  s2, s3, s4 in one week each
\*   half:   s5 from week e for up to four weeks
\*   apart:  s6 alone, in the weeks before e
RoutePlan(route_id, shape, len) ==
    LET e == IF len = 10 THEN 4 ELSE 2
        f == IF len = 10 THEN 6 ELSE 3
        g == IF len = 10 THEN 8 ELSE 0
        last == len - 1
        s1 == TripPlan(route_id, "s1", TwoPassSpan(0, last))
        s2 == TripPlan(route_id, "s2", TwoPassSpan(e, e))
        s3 == TripPlan(route_id, "s3", TwoPassSpan(f, f))
        s4 == TripPlan(route_id, "s4", TwoPassSpan(g, g))
        s5 == TripPlan(route_id, "s5",
                       TwoPassSpan(e, IF e + 3 < last THEN e + 3 ELSE last))
        s6 == TripPlan(route_id, "s6", TwoPassSpan(0, e - 1))
    IN  CASE shape = "stable" -> <<s1>>
          [] shape = "one" -> <<s1, s2>>
          [] shape = "two" -> <<s1, s2, s3>>
          [] shape = "three" -> <<s1, s2, s3, s4>>
          [] shape = "half" -> <<s1, s5>>
          [] shape = "apart" -> <<s6>>

RECURSIVE RoutePlans(_, _, _)
RoutePlans(shapes, i, len) ==
    IF i > Len(shapes) THEN <<>>
    ELSE RoutePlan(RouteNames[i], shapes[i], len) \o RoutePlans(shapes, i + 1, len)

\* The first a routes have one shape, the next ones another, up to n
\* routes; one more route keeps apart from week e.
ShapePairs ==
    {<<"stable", "half">>, <<"one", "half">>, <<"one", "two">>,
     <<"two", "three">>}

TwoPassPlans ==
    {RoutePlans([i \in 1..(n + 1) |->
                    IF i <= a THEN pair[1]
                    ELSE IF i <= n THEN pair[2] ELSE "apart"], 1, len) :
        n \in (CommonRouteThreshold - 1)..MaxRoutes, a \in 0..MaxRoutes,
        pair \in ShapePairs, len \in {4, 10}}

InitTwoPass ==
    \E plan \in TwoPassPlans :
        StartState("coarse", PlanFeed(plan),
                   [ok |-> TRUE, fault |-> "none", dates |-> {}])

\* The steps of the bank-holiday program.
NextTwoPass ==
    \/ Startup
    \/ AnalysisEntry
    \/ NextRow
    \/ WhileLoop
    \/ ClassifyRoute
    \/ PrintResults
    \/ MainResume
    \/ Recommend

SpecTwoPass == InitTwoPass /\ [][NextTwoPass]_vars

\* The first pass's records outside fully_stable.
NotFullyStable(res) ==
    UNION {{res[c][i] : i \in DOMAIN res[c]} :
               c \in {"mostly_stable", "some_variation", "high_variation"}}

\* The weeks that 10 or more of those routes list as exceptional.
FlaggedByTenRoutes(res) ==
    {w \in UNION {Range(r.exceptional_week_list) : r \in NotFullyStable(res)} :
        Cardinality({r.route_id : r \in {q \in NotFullyStable(res) :
                                             w \in Range(q.exceptional_week_list)}})
            >= 10}

\* main has counted the first pass's exceptional weeks.
FirstPassCounted == variant = "coarse" /\ DOMAIN results_pass1 # {}

\* C11: the weeks the second pass excludes in addition are the weeks
\* listed as exceptional by at least 10 routes of the first pass, over the
\* mostly_stable, some_variation and high_variation routes alike.
C11_ExclusionCandidates ==
    FirstPassCounted =>
        /\ additional_exclusions = FlaggedByTenRoutes(results_pass1)
        /\ pass = 2 <=> FlaggedByTenRoutes(results_pass1) # {}


\* The route's entry of route_weekly_data as the first pass built it, from
\* the route's rows, only the bank-holiday weeks excluded.
FirstPassData(route_id) ==
    LET OfRoute(r) == r.route_id = route_id
    IN  ExpansionPass("coarse", {get_week_key(d) : d \in bank_holidays}, feed,
                      SelectSeq(Rows, OfRoute))

\* The record a result holds for a route.
RecordOf(res, route_id) ==
    CHOOSE r \in UNION {{res[c][i] : i \in DOMAIN res[c]} : c \in DOMAIN res} :
        r.route_id = route_id

\* C12: a route observed in 10 weeks of which one, alone in its cluster, is
\* excluded in the second pass has in the second pass the same clusters but
\* that one, one pattern less, 9 weeks, and a dominant percentage of the
\* same dominant count over 9.
C12_TwoPassFeedback ==
    (variant = "coarse" /\ pass = 2 /\ Classified) =>
        \A route_id \in DOMAIN route_weekly_data.at :
            \A w \in additional_exclusions :
                LET first == FirstPassData(route_id).at[route_id].weeks
                    before == PartitionTable(FirstPassData(route_id))[route_id]
                    after == PartitionTable(route_weekly_data)[route_id]
                    first_record == RecordOf(results_pass1, route_id)
                    record == RecordOf(results, route_id)
                IN  (/\ Cardinality(DOMAIN first.at) = 10
                     /\ {w} \in before
                     /\ additional_exclusions \cap DOMAIN first.at = {w})
                    => /\ after = before \ {{w}}
                       /\ Cardinality(after) = Cardinality(before) - 1
                       /\ \A x \in DOMAIN first.at \ {w} :
                             RouteWeeks(route_id).at[x] = first.at[x]
                       /\ record.num_patterns = first_record.num_patterns - 1
                       /\ record.total_weeks = 9
                       /\ record.typical_weeks = first_record.typical_weeks
                       /\ record.typical_pct = Pct(first_record.typical_weeks, 9)

\* C12 witness: 2026-W05 alone was excluded in the second pass, and a route
\* of three patterns in ten weeks has two patterns in nine.
C12_Witness ==
    /\ variant = "coarse"
    /\ pass = 2
    /\ pc = "done"
    /\ additional_exclusions = {<<2026, 5>>}
    /\ \E route_id \in DOMAIN route_weekly_data.at :
          /\ RecordOf(results_pass1, route_id).total_weeks = 10
          /\ RecordOf(results_pass1, route_id).num_patterns = 3
          /\ RecordOf(results, route_id).num_patterns = 2
          /\ RecordOf(results, route_id).total_weeks = 9


\* The categories that hold a record of the route, with the record.
FiledAs(res, route_id) ==
    UNION {{<<c, res[c][i]>> : i \in {k \in DOMAIN res[c] : res[c][k].route_id = route_id}} :
               c \in DOMAIN res}

\* C14: a route none of whose trips touches a week that the second pass
\* excludes in addition has in the second pass the week records, the
\* signatures, the week classes, the record (dominant percentage included)
\* and the category it had in the first pass.
C14_ExclusionIdempotence ==
    (variant = "coarse" /\ pass = 2 /\ Classified) =>
        \A route_id \in DOMAIN route_weekly_data.at :
            (\A w \in additional_exclusions : TouchingRows(route_id, w) = {})
            => /\ RouteWeeks(route_id) = FirstPassData(route_id).at[route_id].weeks
               /\ SignatureTable(route_weekly_data)[route_id]
                      = SignatureTable(FirstPassData(route_id))[route_id]
               /\ PartitionTable(route_weekly_data)[route_id]
                      = PartitionTable(FirstPassData(route_id))[route_id]
               /\ FiledAs(results, route_id) = FiledAs(results_pass1, route_id)

\* C14 witness: the second pass excluded 2026-W05, and a route that runs in
\* 2026-W01 to W04 only is filed as it was.
C14_Witness ==
    /\ variant = "coarse"
    /\ pass = 2
    /\ pc = "done"
    /\ additional_exclusions = {<<2026, 5>>}
    /\ \E route_id \in DOMAIN route_weekly_data.at :
          /\ TouchingRows(route_id, <<2026, 5>>) = {}
          /\ TouchingRows(route_id, <<2026, 4>>) # {}
          /\ FiledAs(results_pass1, route_id) # {}
          /\ FiledAs(results, route_id) = FiledAs(results_pass1, route_id)


\* The bucket the dominant share of a route's weeks gives.
BucketOf(route_id) ==
    LET classes == WeekClasses(route_id)
        total == Cardinality(DOMAIN RouteWeeks(route_id).at)
        dominant == Largest({Cardinality(p) : p \in classes})
    IN  IF dominant = total THEN "fully_stable"
        ELSE IF 100 * dominant >= 90 * total THEN "mostly_stable"
        ELSE IF 100 * dominant >= 70 * total THEN "some_variation"
        ELSE "high_variation"

\* C18: once the bank-holiday analysis has classified, every route with at
\* least 4 observed weeks is filed in exactly one bucket, the one its
\* dominant share d gives: fully_stable at 100%, mostly_stable from 90%,
\* some_variation from 70%, high_variation below.
C18_FourBucketPolicy ==
    (variant = "coarse" /\ Classified) =>
        /\ DOMAIN results = {"fully_stable", "mostly_stable", "some_variation",
                             "high_variation"}
        /\ \A route_id \in DOMAIN route_weekly_data.at :
              Cardinality(DOMAIN RouteWeeks(route_id).at) >= 4 =>
                  /\ Cardinality(FiledAs(results, route_id)) = 1
                  /\ \A cr \in FiledAs(results, route_id) :
                        /\ cr[1] = BucketOf(route_id)
                        /\ cr[2].typical_weeks
                               = Largest({Cardinality(p) : p \in WeekClasses(route_id)})
                        /\ cr[2].total_weeks = Cardinality(DOMAIN RouteWeeks(route_id).at)
        /\ \A c \in DOMAIN results : \A i, j \in DOMAIN results[c] :
              results[c][i].route_id = results[c][j].route_id => i = j

\* C18 witness: a route whose dominant cluster is 7 of its 10 weeks is filed
\* under some_variation.
C18_Witness ==
    /\ variant = "coarse"
    /\ Classified
    /\ \E i \in DOMAIN results["some_variation"] :
          /\ results["some_variation"][i].typical_weeks = 7
          /\ results["some_variation"][i].total_weeks = 10

\* C19: with routes classified, the bank-holiday main prints exactly one of
\* three summaries: "excellent" when the fully_stable and mostly_stable
\* routes are 80% of the classified routes or more, "good" when they are at
\* least 60% and less than 80%, the third otherwise.
C19_AggregateRecommendation ==
    (variant = "coarse" /\ pc = "done") =>
        LET total == TotalRoutes(results)
            publishable == Len(results["fully_stable"]) + Len(results["mostly_stable"])
        IN  /\ total > 0
            /\ recommendation \in {"excellent", "good", "only"}
            /\ recommendation = "excellent" <=> 100 * publishable >= 80 * total
            /\ recommendation = "good" <=>
                  (100 * publishable >= 60 * total /\ 100 * publishable < 80 * total)
            /\ recommendation = "only" <=> 100 * publishable < 60 * total

\* C19 witness: 8 of 10 classified routes are publishable and the summary
\* is "excellent".
C19_Witness ==
    /\ variant = "coarse"
    /\ pc = "done"
    /\ TotalRoutes(results) = 10
    /\ Len(results["fully_stable"]) + Len(results["mostly_stable"]) = 8
    /\ recommendation = "excellent"

----------------------------------------------------------------------------
(* The minimum number of weeks.                                            *)

\* Where a result holds a record of the route: <<category, index>>.
FiledAt(res, route_id) ==
    UNION {{<<c, i>> : i \in {k \in DOMAIN res[c] : res[c][k].route_id = route_id}} :
               c \in DOMAIN res}

ObservedWeeks(route_id) == Cardinality(DOMAIN RouteWeeks(route_id).at)

\* C17: once the analysis has classified, a route with fewer than 3
\* recorded weeks (rigorous analysis) or fewer than 4 recorded weeks after
\* exclusions (bank-holiday analysis) is in no category list and not in the
\* total; every other route is in exactly one list.
C17_MinimumWeekCount ==
    Classified =>
        LET minimum == IF variant = "rigorous" THEN 3 ELSE 4
            routes == DOMAIN route_weekly_data.at
        IN  /\ \A route_id \in routes :
                  IF ObservedWeeks(route_id) < minimum
                  THEN FiledAt(results, route_id) = {}
                  ELSE Cardinality(FiledAt(results, route_id)) = 1
            /\ TotalRoutes(results)
                   = Cardinality({r \in routes : ObservedWeeks(r) >= minimum})

\* C17 witness: with 2026-W01 excluded a route is left with 3 weeks and the
\* bank-holiday analysis has not filed it.
C17_Witness ==
    /\ variant = "coarse"
    /\ Classified
    /\ bank_holiday_weeks = {<<2026, 1>>}
    /\ \E route_id \in DOMAIN route_weekly_data.at :
          /\ ObservedWeeks(route_id) = 3
          /\ TouchingRows(route_id, <<2026, 1>>) # {}
          /\ FiledAt(results, route_id) = {}


\* The categories that hold a record of the route.
CategoriesOf(route_id) == {ci[1] : ci \in FiledAt(results, route_id)}

\* C16, as stated: once the analysis has classified, every route whose
\* recorded weeks all share one signature is filed under fully_stable, in
\* the rigorous and in the bank-holiday analysis.
C16_SingleClusterFullyStable ==
    Classified =>
        \A route_id \in DOMAIN route_weekly_data.at :
            Cardinality(WeekClasses(route_id)) = 1 =>
                CategoriesOf(route_id) = {"fully_stable"}

\* C16, amended: every route of at least the minimum number of recorded
\* weeks (3 in the rigorous, 4 in the bank-holiday analysis) whose weeks all
\* share one signature is filed under fully_stable, once; a shorter route
\* is not filed.
C16_SingleClusterAtMinimum ==
    Classified =>
        \A route_id \in DOMAIN route_weekly_data.at :
            Cardinality(WeekClasses(route_id)) = 1 =>
                IF ObservedWeeks(route_id) >= (IF variant = "rigorous" THEN 3 ELSE 4)
                THEN /\ CategoriesOf(route_id) = {"fully_stable"}
                     /\ Cardinality(FiledAt(results, route_id)) = 1
                ELSE FiledAt(results, route_id) = {}

\* C16 witness: the rigorous analysis filed a route of one signature and at
\* least 3 weeks under fully_stable, next to a route of several signatures.
C16_Witness ==
    /\ variant = "rigorous"
    /\ Classified
    /\ \E route_id \in DOMAIN route_weekly_data.at :
          /\ Cardinality(WeekClasses(route_id)) = 1
          /\ ObservedWeeks(route_id) >= 3
          /\ CategoriesOf(route_id) = {"fully_stable"}
    /\ \E route_id \in DOMAIN route_weekly_data.at :
          Cardinality(WeekClasses(route_id)) > 1

----------------------------------------------------------------------------
(* Runs over feeds whose calendar holds dates that are missing, that are   *)
(* no calendar date, or that are no number.                                *)

\* Three trips, of services s1, s2, s3; each service is absent from the
\* calendar or has a row whose dates are as the case says.
DateCases ==
    {"good", "bad_start", "bad_end", "text_start", "text_end", "absent"}

\* 2026-W01 to W04; 20260230 and 20260431 are no dates.
DateCaseRow(case) ==
    LET good == TwoPassSpan(0, 3)
    IN  CASE case = "good" -> good
          [] case = "bad_start" -> [good EXCEPT !.start_date = 20260230]
          [] case = "bad_end" -> [good EXCEPT !.end_date = 20260431]
          [] case = "text_start" -> [good EXCEPT !.start_date = NonNumeric]
          [] case = "text_end" -> [good EXCEPT !.end_date = NonNumeric]

DateFeed(cases, second_route) ==
    LET services == <<"s1", "s2", "s3">>
        present == {i \in 1..3 : cases[i] # "absent"}
    IN  [calendar |->
            [present |-> TRUE,
             rows |-> [sv \in {services[i] : i \in present} |->
                          DateCaseRow(cases[CHOOSE i \in present : services[i] = sv])]],
         trips |-> [i \in 1..3 |->
                      [trip_id |-> i,
                       route_id |-> IF i = 1 THEN "r1"
                                    ELSE IF i = 2 THEN second_route ELSE "r2",
                       service_id |-> services[i]]],
         stop_times |-> StopTimes]

InitDates ==
    \E v \in {"rigorous", "coarse"}, cases \in [1..3 -> DateCases],
       second_route \in RouteIds :
        StartState(v, DateFeed(cases, second_route),
                   [ok |-> TRUE, fault |-> "none", dates |-> {}])

SpecDates == InitDates /\ [][Next]_vars

\* The rows whose dates are present and are calendar dates.
WellFormedRows == SelectSeq(Rows, RowHasDates)

\* C15: a trip whose start_date or end_date is missing or is no valid date
\* is skipped: no exception ends the run for it, and the week records are
\* those the other trips alone give.
C15_MalformedDatesSkipped ==
    /\ exc # "ValueError"
    /\ Expanded =>
          LET good == ExpansionPass(variant, bank_holiday_weeks, feed, WellFormedRows)
          IN  \A route_id \in RouteIds :
                  RouteWeeks(route_id)
                      = IF Has(good, route_id) THEN good.at[route_id].weeks
                        ELSE EmptyDict

----------------------------------------------------------------------------
(* The volume-bucket analyses: analyze_schedule_clustering ("clustering")  *)
(* and analyze_rail_schedule_distribution ("distribution").  Their week    *)
(* record counts trips, and their signature is the weekday pattern and     *)
(* the trip count rounded to a multiple of five.                           *)

BucketVariants == {"clustering", "distribution"}

\* The inner defaultdict factory; weekday_pattern None is <<>>.
DefaultBucketWeek == [service_ids |-> {}, weekday_pattern |-> <<>>, trip_count |-> 0]

BucketWeekOf(data, route_id, week_key) ==
    IF Has(data, route_id) /\ Has(data.at[route_id].weeks, week_key)
    THEN data.at[route_id].weeks.at[week_key]
    ELSE DefaultBucketWeek

\* The while body: the clustering analysis adds the service id, the
\* distribution analysis has no such line; both overwrite the pattern and
\* count the trip.
BucketWhileBody(data, v, r, d) ==
    LET week_key == get_week_key(d)
        rec == BucketWeekOf(data, r.route_id, week_key)
    IN  SetWeek(data, r.route_id, week_key,
                [service_ids |-> IF v = "clustering"
                                 THEN rec.service_ids \cup {r.service_id}
                                 ELSE rec.service_ids,
                 weekday_pattern |-> WeekdayPattern(r),
                 trip_count |-> rec.trip_count + 1])

\* round(trip_count / 5) * 5: a whole number over five is never half way
\* between two integers, so the rounding is to the nearest.
TripBucket(trip_count) == ((trip_count + 2) \div 5) * 5

\* signature = (pattern, trip_bucket)
BucketSignature(rec) == <<rec.weekday_pattern, TripBucket(rec.trip_count)>>

\* schedule_signatures: signature -> the weeks that have it, both in
\* insertion order.
ScheduleSignatures(weeks) ==
    GroupWeeks(weeks.keys,
               [keys |-> weeks.keys,
                at |-> [k \in DOMAIN weeks.at |-> BucketSignature(weeks.at[k])]],
               EmptyDict)

\* sorted([len(weeks) for weeks in schedule_signatures.values()], reverse=True)
RECURSIVE SortedDesc(_)
SortedDesc(lens) ==
    IF lens = <<>> THEN <<>>
    ELSE LET i == CHOOSE i \in DOMAIN lens : \A j \in DOMAIN lens : lens[j] <= lens[i]
         IN  <<lens[i]>> \o SortedDesc(SubSeq(lens, 1, i - 1)
                                          \o SubSeq(lens, i + 1, Len(lens)))

\* What the analysis keeps: the Counter of schedule counts and the list of
\* routes with several schedules (clustering), or the lists of routes by
\* schedule count (distribution).
EmptyBucketResults(v) ==
    IF v = "clustering"
    THEN [global_pattern_counts |-> <<>>, routes_with_multiple_patterns |-> <<>>]
    ELSE [routes_by_schedule_count |-> <<>>]

\* One iteration of the route loop: a route with fewer than two weeks is
\* passed over; the others are grouped by signature and recorded.
BucketRecordRoute(res, v, route_id, weeks) ==
    IF Len(weeks.keys) < 2 THEN res
    ELSE LET schedule_signatures == ScheduleSignatures(weeks)
             num_schedules == Len(schedule_signatures.keys)
             lens == [i \in DOMAIN schedule_signatures.keys |->
                         Len(schedule_signatures.at[schedule_signatures.keys[i]])]
         IN  IF v = "clustering"
             THEN [global_pattern_counts |->
                       (num_schedules :>
                           (IF num_schedules \in DOMAIN res.global_pattern_counts
                            THEN res.global_pattern_counts[num_schedules] ELSE 0) + 1)
                       @@ res.global_pattern_counts,
                   routes_with_multiple_patterns |->
                       IF num_schedules > 1
                       THEN Append(res.routes_with_multiple_patterns,
                                   [route_id |-> route_id,
                                    num_schedules |-> num_schedules,
                                    total_weeks |-> Len(weeks.keys),
                                    signatures |-> schedule_signatures])
                       ELSE res.routes_with_multiple_patterns]
             ELSE [routes_by_schedule_count |->
                       (num_schedules :>
                           Append(IF num_schedules \in DOMAIN res.routes_by_schedule_count
                                  THEN res.routes_by_schedule_count[num_schedules]
                                  ELSE <<>>,
                                  [route_id |-> route_id,
                                   num_schedules |-> num_schedules,
                                   total_weeks |-> Len(weeks.keys),
                                   schedule_week_counts |-> SortedDesc(lens),
                                   dominant_pct |-> Pct(SortedDesc(lens)[1], Len(weeks.keys)),
                                   signatures |-> schedule_signatures]))
                       @@ res.routes_by_schedule_count]

\* The feed is read and the analysis is entered: no calendar, no result.
BucketEntry ==
    /\ pc = "start"
    /\ variant \in BucketVariants
    /\ io' = [io EXCEPT !.feed_read = TRUE]
    /\ IF CalendarMissing(feed)
       THEN /\ ret' = "None"
            /\ pc' = "done"
            /\ UNCHANGED <<row, route_weekly_data, results>>
       ELSE /\ route_weekly_data' = EmptyDict
            /\ results' = EmptyBucketResults(variant)
            /\ row' = 1
            /\ pc' = "rows"
            /\ UNCHANGED ret
    /\ UNCHANGED <<variant, feed, source, bank_holidays,
                   additional_exclusions, pass, bank_holiday_weeks,
                   current_date, touched, route_idx, results_pass1, exc,
                   recommendation, call>>

\* The head of the row loop and the row's prologue, as in the other
\* analyses: the int() of the dates stands before the try block here too.
BucketNextRow ==
    /\ pc = "rows"
    /\ variant \in BucketVariants
    /\ IF row > Len(Rows)
       THEN /\ pc' = "group"
            /\ route_idx' = 1
            /\ UNCHANGED <<row, current_date, route_weekly_data, exc>>
       ELSE LET r == Rows[row]
            IN  IF r.start_date = NaN \/ r.end_date = NaN
                THEN /\ row' = row + 1
                     /\ UNCHANGED <<pc, current_date, route_weekly_data,
                                    route_idx, exc>>
                ELSE /\ route_weekly_data' =
                            TouchRoute(route_weekly_data, r.route_id)
                     /\ IF IntFails(r.start_date) \/ IntFails(r.end_date)
                        THEN /\ exc' = "ValueError"
                             /\ pc' = "crashed"
                             /\ UNCHANGED <<row, current_date>>
                        ELSE IF DateParses(r.start_date) /\ DateParses(r.end_date)
                        THEN /\ current_date' = ParseDate(r.start_date)
                             /\ pc' = "while"
                             /\ UNCHANGED <<row, exc>>
                        ELSE /\ row' = row + 1
                             /\ UNCHANGED <<pc, current_date, exc>>
                     /\ UNCHANGED route_idx
    /\ UNCHANGED <<variant, feed, source, bank_holidays,
                   additional_exclusions, pass, bank_holiday_weeks, touched,
                   results, ret, results_pass1, recommendation, call, io>>

\* The while loop's test and one iteration of its body.
BucketWhileLoop ==
    /\ pc = "while"
    /\ variant \in BucketVariants
    /\ LET r == Rows[row]
       IN  IF current_date <= ParseDate(r.end_date)
           THEN /\ route_weekly_data' =
                       BucketWhileBody(route_weekly_data, variant, r, current_date)
                /\ current_date' = NextCursor(current_date)
                /\ UNCHANGED <<pc, row>>
           ELSE /\ row' = row + 1
                /\ pc' = "rows"
                /\ UNCHANGED <<route_weekly_data, current_date>>
    /\ UNCHANGED <<variant, feed, source, bank_holidays,
                   additional_exclusions, pass, bank_holiday_weeks, touched,
                   route_idx, results, ret, results_pass1, exc,
                   recommendation, call, io>>

\* The route loop: one route's weeks are grouped by signature.
BucketGroupRoute ==
    /\ pc = "group"
    /\ IF route_idx > Len(route_weekly_data.keys)
       THEN /\ pc' = "print"
            /\ UNCHANGED <<route_idx, results>>
       ELSE LET route_id == route_weekly_data.keys[route_idx]
            IN  /\ results' = BucketRecordRoute(results, variant, route_id,
                                       route_weekly_data.at[route_id].weeks)
                /\ route_idx' = route_idx + 1
                /\ UNCHANGED pc
    /\ UNCHANGED <<variant, feed, source, bank_holidays,
                   additional_exclusions, pass, bank_holiday_weeks, row,
                   current_date, touched, route_weekly_data, ret,
                   results_pass1, exc, recommendation, call, io>>

\* The printing and the return.  The clustering analysis binds
\* two_schedule_routes only where some route has several schedules and
\* reads it afterwards in any case.
BucketPrint ==
    /\ pc = "print"
    /\ IF variant = "clustering" /\ results.routes_with_multiple_patterns = <<>>
       THEN /\ exc' = "UnboundLocalError"
            /\ pc' = "crashed"
            /\ UNCHANGED ret
       ELSE /\ ret' = "results"
            /\ pc' = "done"
            /\ UNCHANGED exc
    /\ UNCHANGED <<variant, feed, source, bank_holidays,
                   additional_exclusions, pass, bank_holiday_weeks, row,
                   current_date, touched, route_weekly_data, route_idx,
                   results, results_pass1, recommendation, call, io>>

\* At most this many trip rows in a feed of the bucket analyses.
BucketTrips == 3

\* s1 runs on weekdays of 2026-W02 and W03, s2 on weekdays of W03 and W04,
\* s3 at the weekend of W02.
BucketCalendar ==
    [present |-> TRUE,
     rows |-> ("s1" :> TwoPassSpan(1, 2)) @@ ("s2" :> TwoPassSpan(2, 3))
              @@ ("s3" :> DateSpan(Weekend, TwoPassBase + 12, TwoPassBase + 13))]

BucketFeeds ==
    {[calendar |-> [present |-> TRUE, rows |-> <<>>], trips |-> TripTable(<<>>),
      stop_times |-> StopTimes]}
    \cup {[calendar |-> BucketCalendar, trips |-> TripTable(ch),
           stop_times |-> StopTimes] :
             ch \in {c \in UNION {[1..n -> RouteIds \X {"s1", "s2", "s3"}] :
                                     n \in 1..BucketTrips} :
                        c[1][1] = "r1"}}

InitBucket ==
    \E v \in BucketVariants, f \in BucketFeeds :
        StartState(v, f, [ok |-> TRUE, fault |-> "none", dates |-> {}])

NextBucket ==
    \/ BucketEntry
    \/ BucketNextRow
    \/ BucketWhileLoop
    \/ BucketGroupRoute
    \/ BucketPrint

SpecBucket == InitBucket /\ [][NextBucket]_vars

\* The expansion pass of the run is over.
ExpansionOver == pc \in {"freeze", "classify", "group", "print", "resume",
                         "recommend", "done"}

RecordedRoutes == {route_id \in RouteIds : Has(route_weekly_data, route_id)}

\* C21: in every pipeline variant, after the expansion pass every week
\* record that exists for a route has a non-empty set of service
\* identifiers.
C21_NonEmptyServiceSet ==
    (ExpansionOver /\ ret # "None") =>
        \A route_id \in RecordedRoutes :
            \A week_key \in DOMAIN RouteWeeks(route_id).at :
                RouteWeeks(route_id).at[week_key].service_ids # {}

\* The clusters of a route's weeks as the running analysis forms them:
\* signature -> weeks.
ClusterTable(weeks) ==
    IF variant \in BucketVariants
    THEN ScheduleSignatures(weeks)
    ELSE SignatureToWeeks(WeekSignatures(weeks))

\* The routes' weeks are being clustered or have been.
Clustering == pc \in {"classify", "group", "print", "resume", "recommend", "done"}

\* C22: in every pipeline variant, the volume-bucket analyses included, two
\* weeks of a route are in the same cluster only if they have the same
\* weekday pattern and the same set of service identifiers.
C22_SignatureGranularity ==
    (Clustering /\ ret # "None") =>
        \A route_id \in RecordedRoutes :
            LET weeks == RouteWeeks(route_id)
                table == ClusterTable(weeks)
            IN  \A sig \in DOMAIN table.at :
                    \A a, b \in Range(table.at[sig]) :
                        /\ weeks.at[a].weekday_pattern = weeks.at[b].weekday_pattern
                        /\ weeks.at[a].service_ids = weeks.at[b].service_ids

----------------------------------------------------------------------------
(* select_week: the next Monday whose week avoids the blacklisted periods. *)

\* (start_month, start_day, end_month, end_day): 1 December to 31 January.
BLACKLIST_PERIODS == {<<12, 1, 1, 31>>}

\* A test that looks at the first day of the week only.
IsWeekBlacklistedByStart(week_start) ==
    \E p \in BLACKLIST_PERIODS :
        \E year \in {d + YearOfOrdinal(week_start) : d \in {-1, 0, 1}} :
            LET blacklist_start == Ymd2Ord(year, p[1], p[2])
                blacklist_end == IF p[3] < p[1] THEN Ymd2Ord(year + 1, p[3], p[4])
                                 ELSE Ymd2Ord(year, p[3], p[4])
            IN  ~(week_start < blacklist_start \/ week_start > blacklist_end)

\* is_week_blacklisted(week_start): some period, placed in the year before,
\* the year of, or the year after week_start, overlaps the week.
is_week_blacklisted(week_start) ==
    LET week_end == week_start + 6
    IN  \E p \in BLACKLIST_PERIODS :
            \E year \in {d + YearOfOrdinal(week_start) : d \in {-1, 0, 1}} :
                LET blacklist_start == Ymd2Ord(year, p[1], p[2])
                    blacklist_end == IF p[3] < p[1] THEN Ymd2Ord(year + 1, p[3], p[4])
                                     ELSE Ymd2Ord(year, p[3], p[4])
                IN  ~(week_end < blacklist_start \/ week_start > blacklist_end)

\* get_next_monday(), for the date datetime.now() gives.
get_next_monday(today) == today + ((7 - Weekday(today)) % 7)

\* A step of six days.
NextCandidateSixDays(candidate) == candidate + 6

\* candidate += timedelta(days=7)
NextCandidate(candidate) == candidate + 7

max_attempts == 52

\* The first year today is taken from, and the number of years: 28 years
\* hold every arrangement of weekdays and leap years of the century.
FirstYear == 2024

NumYears == 28

Todays == Ymd2Ord(FirstYear, 1, 1)..(Ymd2Ord(FirstYear + NumYears, 1, 1) - 1)

\* select_week is about to be called on some day.
InitSelect ==
    /\ ProgramsIdle
    /\ io = NoIO
    /\ \E today \in Todays :
          call = [fn |-> "select_week", arg |-> today, at |-> "start",
                  candidate |-> 0, attempts |-> 0, done |-> FALSE, ret |-> 0,
                  raised |-> "none"]

\* candidate = get_next_monday()
SelectFirstCandidate ==
    /\ call.fn = "select_week"
    /\ call.at = "start"
    /\ call' = [call EXCEPT !.candidate = get_next_monday(call.arg),
                            !.at = "loop"]
    /\ UNCHANGED ProgramVars
    /\ UNCHANGED io

\* One pass of "for _ in range(max_attempts)", or the raise behind the loop.
SelectAttempt ==
    /\ call.fn = "select_week"
    /\ call.at = "loop"
    /\ IF call.attempts < max_attempts
       THEN IF ~is_week_blacklisted(call.candidate)
            THEN call' = [call EXCEPT !.done = TRUE, !.ret = call.candidate,
                                      !.at = "returned"]
            ELSE call' = [call EXCEPT !.candidate = NextCandidate(call.candidate),
                                      !.attempts = @ + 1]
       ELSE call' = [call EXCEPT !.raised = "RuntimeError", !.at = "raised"]
    /\ UNCHANGED ProgramVars
    /\ UNCHANGED io

NextSelect == SelectFirstCandidate \/ SelectAttempt

SpecSelect == InitSelect /\ [][NextSelect]_vars

\* A day of December or of January lies in the seven days from monday on.
HoldsWinterDay(monday) ==
    \E d \in monday..(monday + 6) : MonthOfOrdinal(d) \in {12, 1}

SelectReturned == call.fn = "select_week" /\ call.done

\* C23: select_week returns a Monday on or after today (today itself when
\* today is a Monday whose week is not blacklisted), whose week holds no day
\* from 1 December to 31 January, and no earlier Monday from today on has
\* such a week.
C23_SelectWeekResult ==
    SelectReturned =>
        /\ Weekday(call.ret) = 0
        /\ call.ret >= call.arg
        /\ (Weekday(call.arg) = 0 /\ ~HoldsWinterDay(call.arg)) => call.ret = call.arg
        /\ ~HoldsWinterDay(call.ret)
        /\ \A d \in call.arg..(call.ret - 1) : Weekday(d) = 0 => HoldsWinterDay(d)

\* select_week was called on a day of a week that reaches into December and
\* returned a Monday of February.
C23_Witness ==
    /\ SelectReturned
    /\ MonthOfOrdinal(call.arg) = 11
    /\ MonthOfOrdinal(call.ret) = 2
    /\ call.ret - call.arg > 60

\* C30: select_week never raises RuntimeError: within its 52 attempts it
\* finds a Monday that is not blacklisted; the candidate is a Monday and
\* lies seven days further for every attempt made.
C30_SelectWeekSucceeds ==
    call.fn = "select_week" =>
        /\ call.raised = "none"
        /\ call.attempts < max_attempts
        /\ call.at \in {"loop", "returned"} =>
              /\ Weekday(call.candidate) = 0
              /\ call.candidate - 7 * call.attempts \in call.arg..(call.arg + 6)

\* Ten weeks in a row were blacklisted and the eleventh attempt returned.
C30_Witness ==
    /\ SelectReturned
    /\ call.attempts = 10
    /\ call.raised = "none"

----------------------------------------------------------------------------
(* trim_to_week: the bus feed's calendar and calendar_dates are cut down   *)
(* to the week that GTFS_WEEK_START names.  Dates are YYYYMMDD text of     *)
(* eight digits, which compares as the number it spells.                   *)

\* os.environ.get('GTFS_WEEK_START') gave nothing.
Unset == 0

\* The variable is unset, names Monday 2025-12-29 or Monday 2026-01-05, or
\* names 30 February.
WeekStartStrings == {Unset, 20251229, 20260105, 20260230}

\* Dates before, at the edges of, inside and after the two weeks.
TrimDates == {20251222, 20251229, 20260101, 20260104, 20260108, 20260112}

\* feed.calendar is None, or holds a row for s1, or rows for s1 and s2;
\* a row's start_date may lie behind its end_date.
TrimCalendars ==
    LET spans == [start_date : TrimDates, end_date : TrimDates]
    IN  {[present |-> FALSE, rows |-> <<>>]}
        \cup {[present |-> TRUE, rows |-> ("s1" :> a)] : a \in spans}
        \cup {[present |-> TRUE, rows |-> ("s1" :> a) @@ ("s2" :> b)] :
                  a \in spans, b \in spans}

\* feed.calendar_dates is None, or holds the rows given, each a date.
TrimCalendarDates ==
    {[present |-> FALSE, rows |-> {}]}
    \cup {[present |-> TRUE, rows |-> S] :
              S \in SUBSET {20251228, 20260101, 20260105}}

\* A filter that keeps the rows that start inside the week.
KeepsCalendarRowStartingInside(r, start_str, end_str) ==
    r.start_date >= start_str /\ r.start_date <= end_str

\* (calendar['end_date'] >= start_str) & (calendar['start_date'] <= end_str)
KeepsCalendarRow(r, start_str, end_str) ==
    r.end_date >= start_str /\ r.start_date <= end_str

\* The filtered calendar with start_date raised to start_str and end_date
\* lowered to end_str.
TrimmedCalendar(calendar, start_str, end_str) ==
    LET kept == {sv \in DOMAIN calendar.rows :
                    KeepsCalendarRow(calendar.rows[sv], start_str, end_str)}
        Max(a, b) == IF a >= b THEN a ELSE b
        Min(a, b) == IF a <= b THEN a ELSE b
    IN  [present |-> TRUE,
         rows |-> [sv \in kept |->
                      [start_date |-> Max(calendar.rows[sv].start_date, start_str),
                       end_date |-> Min(calendar.rows[sv].end_date, end_str)]]]

\* (calendar_dates['date'] >= start_str) & (calendar_dates['date'] <= end_str)
TrimmedCalendarDates(calendar_dates, start_str, end_str) ==
    [present |-> TRUE,
     rows |-> {d \in calendar_dates.rows : d >= start_str /\ d <= end_str}]

InitTrim ==
    /\ ProgramsIdle
    /\ io = NoIO
    /\ \E w \in WeekStartStrings, c \in TrimCalendars, cd \in TrimCalendarDates :
          call = [fn |-> "trim_to_week", arg |-> w, at |-> "start",
                  input |-> [calendar |-> c, calendar_dates |-> cd],
                  feed |-> <<>>, week_start |-> 0, week_end |-> 0,
                  done |-> FALSE, ret |-> FALSE, raised |-> "none"]

\* main up to the filters: the variable is read (unset: exit status 1), its
\* value parsed (strptime raises ValueError for what is no date), the feed
\* read.
TrimStart ==
    /\ call.fn = "trim_to_week"
    /\ call.at = "start"
    /\ IF call.arg = Unset
       THEN /\ io' = [io EXCEPT !.stderr = "ERROR: GTFS_WEEK_START environment variable not set",
                                !.exit_status = 1]
            /\ call' = [call EXCEPT !.at = "exited"]
       ELSE IF ~DateParses(call.arg)
       THEN /\ call' = [call EXCEPT !.at = "raised", !.raised = "ValueError"]
            /\ UNCHANGED io
       ELSE /\ call' = [call EXCEPT !.week_start = ParseDate(call.arg),
                                    !.week_end = ParseDate(call.arg) + 6,
                                    !.feed = call.input,
                                    !.at = "calendar"]
            /\ io' = [io EXCEPT !.feed_read = TRUE]
    /\ UNCHANGED ProgramVars

\* "# Filter calendar"
TrimCalendar ==
    /\ call.fn = "trim_to_week"
    /\ call.at = "calendar"
    /\ call' = [call EXCEPT
                   !.feed.calendar =
                       IF @.present
                       THEN TrimmedCalendar(@, DateNumber(call.week_start),
                                            DateNumber(call.week_end))
                       ELSE @,
                   !.at = "calendar_dates"]
    /\ UNCHANGED ProgramVars
    /\ UNCHANGED io

\* "# Filter calendar_dates"
TrimDatesTable ==
    /\ call.fn = "trim_to_week"
    /\ call.at = "calendar_dates"
    /\ call' = [call EXCEPT
                   !.feed.calendar_dates =
                       IF @.present
                       THEN TrimmedCalendarDates(@, DateNumber(call.week_start),
                                                 DateNumber(call.week_end))
                       ELSE @,
                   !.at = "filtered"]
    /\ UNCHANGED ProgramVars
    /\ UNCHANGED io

\* The library's clean and the writing of the file end main.
TrimWrite ==
    /\ call.fn = "trim_to_week"
    /\ call.at = "filtered"
    /\ call' = [call EXCEPT !.at = "written", !.done = TRUE]
    /\ UNCHANGED ProgramVars
    /\ UNCHANGED io

NextTrim == TrimStart \/ TrimCalendar \/ TrimDatesTable \/ TrimWrite

SpecTrim == InitTrim /\ [][NextTrim]_vars

\* Both filters of trim_to_week have run.
TrimFiltered == call.fn = "trim_to_week" /\ call.at = "filtered"

\* Some day lies in the row's [start_date, end_date] and in the week.
IntersectsWeek(r) ==
    \E d \in call.week_start..call.week_end :
        ParseDate(r.start_date) <= d /\ d <= ParseDate(r.end_date)

RowInsideWeek(r) ==
    /\ call.week_start <= ParseDate(r.start_date)
    /\ ParseDate(r.start_date) <= ParseDate(r.end_date)
    /\ ParseDate(r.end_date) <= call.week_start + 6

DatesInsideWeek ==
    call.feed.calendar_dates.present =>
        \A d \in call.feed.calendar_dates.rows :
            call.week_start <= ParseDate(d) /\ ParseDate(d) <= call.week_start + 6

\* C24: after the filters the calendar holds exactly the rows whose
\* original [start_date, end_date] intersects the week from week_start to
\* week_start + 6 days; every retained row whose original start_date is not
\* behind its end_date lies inside the week with start_date <= end_date; and
\* every retained calendar_dates row has its date inside the week.
C24_TrimToWeek ==
    TrimFiltered =>
        /\ call.feed.calendar.present =>
              /\ DOMAIN call.feed.calendar.rows =
                     {sv \in DOMAIN call.input.calendar.rows :
                         IntersectsWeek(call.input.calendar.rows[sv])}
              /\ \A sv \in DOMAIN call.feed.calendar.rows :
                     call.input.calendar.rows[sv].start_date
                             <= call.input.calendar.rows[sv].end_date
                         => RowInsideWeek(call.feed.calendar.rows[sv])
        /\ DatesInsideWeek

\* C24, with the retained rows named by their ends: the calendar holds
\* exactly the rows whose original end_date is not before week_start and
\* whose original start_date is not after week_start + 6 days; among the
\* rows whose start_date is not behind their end_date these are exactly
\* the rows that intersect the week, and each lies inside the week with
\* start_date <= end_date; every retained calendar_dates row has its date
\* inside the week.
C24_TrimToWeekByEnds ==
    TrimFiltered =>
        /\ call.feed.calendar.present =>
              /\ DOMAIN call.feed.calendar.rows =
                     {sv \in DOMAIN call.input.calendar.rows :
                         /\ ParseDate(call.input.calendar.rows[sv].end_date)
                                >= call.week_start
                         /\ ParseDate(call.input.calendar.rows[sv].start_date)
                                <= call.week_start + 6}
              /\ \A sv \in DOMAIN call.input.calendar.rows :
                     call.input.calendar.rows[sv].start_date
                             <= call.input.calendar.rows[sv].end_date
                         => /\ sv \in DOMAIN call.feed.calendar.rows
                                  <=> IntersectsWeek(call.input.calendar.rows[sv])
                            /\ sv \in DOMAIN call.feed.calendar.rows
                                  => RowInsideWeek(call.feed.calendar.rows[sv])
        /\ DatesInsideWeek

\* A row reaching over both ends of the week was cut to the week, a row
\* that ends before the week was dropped, and a calendar_dates row was
\* dropped while another was kept.
C24_Witness ==
    /\ TrimFiltered
    /\ call.feed.calendar.present
    /\ DOMAIN call.input.calendar.rows = {"s1", "s2"}
    /\ DOMAIN call.feed.calendar.rows = {"s1"}
    /\ call.input.calendar.rows["s1"].start_date < DateNumber(call.week_start)
    /\ call.input.calendar.rows["s1"].end_date > DateNumber(call.week_end)
    /\ call.input.calendar.rows["s2"].end_date < DateNumber(call.week_start)
    /\ call.feed.calendar_dates.rows # {}
    /\ call.feed.calendar_dates.rows # call.input.calendar_dates.rows

----------------------------------------------------------------------------
(* extract_transit_week: the week start of the bus and of the rail feed    *)
(* is read, compared and written for the analyzer.  A date of a feed is    *)
(* its text, a sequence of eight digits; the file's content is a sequence  *)
(* of digits and hyphens.                                                  *)

\* start_date = None: no text.
None == <<>>

\* The character "-", by its code; a digit is its value.
Hyphen == 45

\* The text of a date number: its eight digits.
DateText(n) == [i \in 1..8 |-> (n \div (10 ^ (8 - i))) % 10]

\* int(text): the number the digits spell.
RECURSIVE IntOf(_)
IntOf(text) ==
    IF text = <<>> THEN 0
    ELSE 10 * IntOf(SubSeq(text, 1, Len(text) - 1)) + text[Len(text)]

\* f"{n:0wd}": the digits of n, with zeros in front up to the width.
RECURSIVE Padded(_, _)
Padded(n, width) ==
    IF width <= 1 /\ n < 10 THEN <<n>>
    ELSE Padded(n \div 10, width - 1) \o <<n % 10>>

\* a <= b as Python compares str: by the first character that differs, a
\* prefix before what it is a prefix of.
RECURSIVE TextLE(_, _)
TextLE(a, b) ==
    IF a = <<>> THEN TRUE
    ELSE IF b = <<>> THEN FALSE
    ELSE IF Head(a) # Head(b) THEN Head(a) < Head(b)
    ELSE TextLE(Tail(a), Tail(b))

\* Series.min() of a column of texts.
TextMin(column) == CHOOSE a \in column : \A b \in column : TextLE(a, b)

\* A start date that leaves calendar_dates out when there is a calendar.
StartDateCalendarFirst(f) ==
    IF f.calendar.present /\ f.calendar.rows # {}
    THEN TextMin(f.calendar.rows)
    ELSE IF f.calendar_dates.present /\ f.calendar_dates.rows # {}
    THEN TextMin(f.calendar_dates.rows)
    ELSE None

\* get_gtfs_start_date up to its test for None: the least start_date of
\* the calendar, or the least date of calendar_dates where that is less or
\* there is no calendar row.
StartDateOrNone(f) ==
    LET from_calendar ==
            IF f.calendar.present /\ f.calendar.rows # {}
            THEN TextMin(f.calendar.rows) ELSE None
    IN  IF f.calendar_dates.present /\ f.calendar_dates.rows # {}
        THEN LET calendar_dates_start == TextMin(f.calendar_dates.rows)
             IN  IF from_calendar = None
                    \/ (calendar_dates_start # from_calendar
                        /\ TextLE(calendar_dates_start, from_calendar))
                 THEN calendar_dates_start ELSE from_calendar
        ELSE from_calendar

\* year, month and day are cut from the text, read as numbers and written
\* with four, two and two digits between hyphens.
FormattedDate(text) ==
    Padded(IntOf(SubSeq(text, 1, 4)), 4) \o <<Hyphen>>
        \o Padded(IntOf(SubSeq(text, 5, 6)), 2) \o <<Hyphen>>
        \o Padded(IntOf(SubSeq(text, 7, 8)), 2)

\* The start dates a table of a feed may hold.
TransitDates == {DateText(20251229), DateText(20260105), DateText(20260112)}

\* A table is None or holds any of the dates, none included.
TransitTables ==
    {[present |-> FALSE, rows |-> {}]}
    \cup {[present |-> TRUE, rows |-> S] : S \in SUBSET TransitDates}

\* A feed file is missing, or is there with its two tables.
TransitFeeds ==
    {[exists |-> FALSE, calendar |-> [present |-> FALSE, rows |-> {}],
      calendar_dates |-> [present |-> FALSE, rows |-> {}]]}
    \cup {[exists |-> TRUE, calendar |-> c, calendar_dates |-> cd] :
              c \in TransitTables, cd \in TransitTables}

InitTransit ==
    /\ ProgramsIdle
    /\ io = NoIO
    /\ \E bus \in TransitFeeds, rail \in TransitFeeds :
          call = [fn |-> "extract_transit_week",
                  arg |-> [bus |-> bus, rail |-> rail], at |-> "start",
                  bus_start |-> None, rail_start |-> None,
                  written |-> FALSE, content |-> <<>>,
                  done |-> FALSE, ret |-> FALSE]

\* main: both files must exist; then both feeds are read.
TransitReadFeeds ==
    /\ call.fn = "extract_transit_week"
    /\ call.at = "start"
    /\ IF ~call.arg.bus.exists \/ ~call.arg.rail.exists
       THEN /\ io' = [io EXCEPT !.stderr = "ERROR: GTFS file not found",
                                !.exit_status = 1]
            /\ call' = [call EXCEPT !.at = "exited"]
       ELSE /\ io' = [io EXCEPT !.feed_read = TRUE]
            /\ call' = [call EXCEPT !.at = "bus"]
    /\ UNCHANGED ProgramVars

\* bus_start = get_gtfs_start_date(bus_feed, "Bus")
TransitBusStart ==
    /\ call.fn = "extract_transit_week"
    /\ call.at = "bus"
    /\ IF StartDateOrNone(call.arg.bus) = None
       THEN /\ io' = [io EXCEPT !.stderr = "ERROR: GTFS has no calendar or calendar_dates data",
                                !.exit_status = 1]
            /\ call' = [call EXCEPT !.at = "exited"]
       ELSE /\ call' = [call EXCEPT !.bus_start = StartDateOrNone(call.arg.bus),
                                    !.at = "rail"]
            /\ UNCHANGED io
    /\ UNCHANGED ProgramVars

\* rail_start = get_gtfs_start_date(rail_feed, "Rail")
TransitRailStart ==
    /\ call.fn = "extract_transit_week"
    /\ call.at = "rail"
    /\ IF StartDateOrNone(call.arg.rail) = None
       THEN /\ io' = [io EXCEPT !.stderr = "ERROR: GTFS has no calendar or calendar_dates data",
                                !.exit_status = 1]
            /\ call' = [call EXCEPT !.at = "exited"]
       ELSE /\ call' = [call EXCEPT !.rail_start = StartDateOrNone(call.arg.rail),
                                    !.at = "compare"]
            /\ UNCHANGED io
    /\ UNCHANGED ProgramVars

\* The two starts are compared; equal, the date is formatted and written.
TransitCompareAndWrite ==
    /\ call.fn = "extract_transit_week"
    /\ call.at = "compare"
    /\ IF call.bus_start # call.rail_start
       THEN /\ io' = [io EXCEPT !.stderr = "ERROR: GTFS week mismatch!",
                                !.exit_status = 1]
            /\ call' = [call EXCEPT !.at = "exited"]
       ELSE /\ call' = [call EXCEPT !.written = TRUE,
                                    !.content = FormattedDate(call.bus_start),
                                    !.at = "written", !.done = TRUE]
            /\ UNCHANGED io
    /\ UNCHANGED ProgramVars

NextTransit ==
    \/ TransitReadFeeds
    \/ TransitBusStart
    \/ TransitRailStart
    \/ TransitCompareAndWrite

SpecTransit == InitTransit /\ [][NextTransit]_vars

\* The feed has a row in calendar or in calendar_dates.
HasDateData(f) ==
    \/ f.calendar.present /\ f.calendar.rows # {}
    \/ f.calendar_dates.present /\ f.calendar_dates.rows # {}

\* The earliest date of the feed's two tables, as a number.
EarliestDate(f) ==
    LET all == {IntOf(t) : t \in f.calendar.rows \cup f.calendar_dates.rows}
    IN  CHOOSE n \in all : \A k \in all : n <= k

\* YYYY-MM-DD of a date number.
Hyphenated(n) ==
    SubSeq(DateText(n), 1, 4) \o <<Hyphen>> \o SubSeq(DateText(n), 5, 6)
        \o <<Hyphen>> \o SubSeq(DateText(n), 7, 8)

TransitEnded == call.fn = "extract_transit_week" /\ call.at \in {"exited", "written"}

\* C25: extract_transit_week writes the file only when both feeds have
\* calendar or calendar_dates data and their earliest start dates are
\* equal; if a feed has no date data or the dates differ, it exits with
\* status 1 and writes nothing; what it writes is the common start date as
\* YYYY-MM-DD.
C25_TransitWeekConsistency ==
    call.fn = "extract_transit_week" =>
        LET bus == call.arg.bus
            rail == call.arg.rail
            agree == /\ HasDateData(bus) /\ HasDateData(rail)
                     /\ EarliestDate(bus) = EarliestDate(rail)
        IN  /\ call.written =>
                  /\ agree
                  /\ call.content = Hyphenated(EarliestDate(bus))
                  /\ io.exit_status = 0
            /\ (TransitEnded /\ ~agree) =>
                  /\ io.exit_status = 1
                  /\ ~call.written

\* The file was written for two feeds whose earliest dates come from
\* different tables.
C25_Witness ==
    /\ call.fn = "extract_transit_week"
    /\ call.written
    /\ call.arg.bus.calendar.rows = {DateText(20260105), DateText(20260112)}
    /\ call.arg.bus.calendar_dates.rows = {}
    /\ call.arg.rail.calendar.rows = {DateText(20260112)}
    /\ call.arg.rail.calendar_dates.rows = {DateText(20260105)}
    /\ call.content = <<2, 0, 2, 6, Hyphen, 0, 1, Hyphen, 0, 5>>

----------------------------------------------------------------------------
(* Termination of the week expansion.                                      *)

\* One or two trips of service s1, whose row starts and ends on any of the
\* start and end dates (the start behind the end included); the
\* bank-holiday analysis with no holiday or with New Year's Day 2026.
InitExpand ==
    \E v \in {"rigorous", "coarse"}, a \in CalendarRow({Weekdays}),
       t \in {TripTable(<<<<"r1", "s1">>>>),
              TripTable(<<<<"r1", "s1">>, <<"r2", "s1">>>>)},
       src \in {h \in HolidaySources : h.ok} :
        /\ v = "rigorous" => src.dates = {}
        /\ StartState(v, [calendar |-> [present |-> TRUE, rows |-> ("s1" :> a)],
                          trips |-> t, stop_times |-> StopTimes], src)

\* The runs in which the while loop, when it can take a step, does take it:
\* the program is sequential and nothing holds it up.
SpecExpand == InitExpand /\ [][Next]_vars /\ WF_vars(WhileLoop)

\* C26: the expansion loop of every row with valid dates ends: every
\* iteration, recording or skipping an excluded week, moves the cursor
\* forward by 1 to 7 days onto the Monday of the following week; a row
\* whose start_date lies behind its end_date makes no iteration and is
\* recorded in no week.
C26_ExpansionTerminates ==
    /\ [][(pc = "while" /\ pc' = "while") =>
              /\ current_date' - current_date \in 1..7
              /\ current_date' = MondayOfWeek(get_week_key(current_date)) + 7]_vars
    /\ [][(pc = "while"
              /\ ParseDate(Rows[row].start_date) > ParseDate(Rows[row].end_date)) =>
              /\ pc' = "rows"
              /\ touched = <<>>
              /\ route_weekly_data' = route_weekly_data]_vars
    /\ (pc = "while") ~> (pc # "while")

\* The loop has skipped an excluded week, has moved its cursor on and is to
\* make a further iteration.
C26_Witness ==
    /\ pc = "while"
    /\ variant = "coarse"
    /\ get_week_key(ParseDate(Rows[row].start_date)) \in bank_holiday_weeks
    /\ touched = <<>>
    /\ current_date > ParseDate(Rows[row].start_date)
    /\ current_date <= ParseDate(Rows[row].end_date)

----------------------------------------------------------------------------
(* What a true answer of is_contiguous says of a cluster.                  *)

\* is_contiguous was applied to a list of two or more weeks and said yes.
SaidContiguous ==
    /\ call.fn = "is_contiguous" /\ call.done
    /\ Len(call.arg) >= 2
    /\ call.ret = TRUE

\* The ISO weeks from the earliest to the latest week of the list that are
\* not in it.
MissingWeeks(week_list) ==
    LET mondays == {MondayOfWeek(w) : w \in Range(week_list)}
        first == CHOOSE m \in mondays : \A n \in mondays : m <= n
        last == CHOOSE m \in mondays : \A n \in mondays : n <= m
    IN  {m \in first..last : (m - first) % 7 = 0 /\ m \notin mondays}

OneIsoYear(week_list) == \A a, b \in Range(week_list) : a[1] = b[1]

----------------------------------------------------------------------------
(* The weekday pattern of a week record.                                   *)

\* The last row, in row order, of those given.
LastRow(S) == CHOOSE i \in S : \A j \in S : j <= i

\* C28: when the expansion pass has ended, the weekday pattern stored for a
\* route and week is the pattern of the last row, in row order, of that
\* route whose expansion touched the week, and the signature carries that
\* pattern.
C28_PatternLastWriteWins ==
    (Expanded /\ route_idx = 1) =>
        \A route_id \in RecordedRoutes :
            \A week_key \in DOMAIN RouteWeeks(route_id).at :
                LET rec == RouteWeeks(route_id).at[week_key]
                    touching == TouchingRows(route_id, week_key)
                IN  /\ touching # {}
                    /\ Signature(rec)[1] = rec.weekday_pattern
                    /\ rec.weekday_pattern = WeekdayPattern(Rows[LastRow(touching)])

\* Two rows of one route with different patterns touched one week.
C28_Witness ==
    /\ Expanded /\ route_idx = 1
    /\ \E route_id \in RecordedRoutes :
           \E week_key \in DOMAIN RouteWeeks(route_id).at :
               \E i, j \in TouchingRows(route_id, week_key) :
                   /\ i < j
                   /\ WeekdayPattern(Rows[i]) # WeekdayPattern(Rows[j])
                   /\ RouteWeeks(route_id).at[week_key].weekday_pattern
                          = WeekdayPattern(Rows[j])

----------------------------------------------------------------------------
(* The passes of the bank-holiday main.                                    *)

\* The weeks of the fetched holidays.
HolidayWeeks == {get_week_key(d) : d \in bank_holidays}

\* C29: the bank-holiday main runs at most two passes; the second runs if
\* and only if the first pass shows a week that 10 or more routes list as
\* exceptional; the second pass excludes the bank-holiday weeks and exactly
\* those weeks; the recommendation is made from the second pass's results
\* when it ran and from the first pass's otherwise; there is no third pass.
C29_TwoPassControlFlow ==
    variant = "coarse" =>
        /\ pass \in {1, 2}
        /\ FirstPassCounted =>
              (pass = 2 <=> FlaggedByTenRoutes(results_pass1) # {})
        /\ (pass = 2 /\ pc # "entry") =>
              bank_holiday_weeks = HolidayWeeks \cup FlaggedByTenRoutes(results_pass1)
        /\ (pass = 1 /\ pc \notin {"start", "exited", "entry"}) =>
              bank_holiday_weeks = HolidayWeeks
        /\ pc = "done" =>
              /\ recommendation = CoarseRecommendation(results)
              /\ pass = 1 => results = results_pass1
              /\ pass = 2 => bank_holiday_weeks # HolidayWeeks

====
